---- MODULE Spec2Model ----
(***************************************************************************)
(* A model of libchkconfig (src/unnamed/part_005, the library source):     *)
(* boolean flags backed by files in a read/write "state" directory and a   *)
(* read-only "default" fallback directory, the runtime options and the     *)
(* contexts that reference them.                                           *)
(*                                                                         *)
(* Strings are sequences of one-character strings.  Flag files hold such   *)
(* sequences; reading past the end of a string yields NUL, as the C string *)
(* terminator (and the zero fill of a mapped page) does.                   *)
(***************************************************************************)
EXTENDS Integers, Sequences, FiniteSets, TLC

VARIABLES
    ctxs,   \* the heap of chkconfig_context_t objects, by address
    opts,   \* the heap of chkconfig_options_t objects, by address
    held,   \* the options pointers the caller currently holds
    fs,     \* the filesystem: directory path -> entry name -> entry
    res     \* the outcome of the last library call

vars == <<ctxs, opts, held, fs, res>>

----------------------------------------------------------------------------
(* Bounds of the model. *)

MaxContexts == 2    \* addresses available to "new chkconfig_context_t"
MaxOptions  == 2    \* addresses available to "new chkconfig_options_t"
MaxFiles    == 3    \* directory entries present over both directories
MaxTuples   == 2    \* tuples of an array the caller allocates

----------------------------------------------------------------------------
(* Program constants. *)

CHKCONFIG_STATUS_SUCCESS == 0

CHKCONFIG_ORIGIN_UNKNOWN == 0
CHKCONFIG_ORIGIN_NONE    == 1
CHKCONFIG_ORIGIN_DEFAULT == 2
CHKCONFIG_ORIGIN_STATE   == 3

ENOENT == 2
ENOMEM == 12
EACCES == 13
ENODEV == 19
EISDIR == 21
EINVAL == 22

CHKCONFIG_STATEDIR_DEFAULT   == "/var/config"
CHKCONFIG_DEFAULTDIR_DEFAULT == "/etc/config"

sOnStateString  == <<"o", "n">>
sOffStateString == <<"o", "f", "f">>

(* A null "const char *": as a directory path and as a flag. *)
NullDir  == "(null)"
NullFlag == <<"(null)">>

(* The address of sChkconfigOptionsDefault, and the null options pointer. *)
DefaultRef == 0
NullRef    == -1

CtxIds == 1 .. MaxContexts
OptIds == 1 .. MaxOptions

sChkconfigOptionsDefault ==
    [ m_state_dir       |-> CHKCONFIG_STATEDIR_DEFAULT,
      m_force_state     |-> FALSE,
      m_use_default_dir |-> FALSE,
      m_default_dir     |-> CHKCONFIG_DEFAULTDIR_DEFAULT ]

----------------------------------------------------------------------------
(* C strings. *)

NUL == "NUL"

At(s, i) == IF i <= Len(s) THEN s[i] ELSE NUL

Ord(c) ==
    CASE c = NUL  -> 0
      [] c = "\n" -> 10
      [] c = "F"  -> 70
      [] c = "N"  -> 78
      [] c = "O"  -> 79
      [] c = "a"  -> 97
      [] c = "b"  -> 98
      [] c = "f"  -> 102
      [] c = "n"  -> 110
      [] c = "o"  -> 111
      [] c = "x"  -> 120

ToLower(c) ==
    CASE c = "F" -> "f"
      [] c = "N" -> "n"
      [] c = "O" -> "o"
      [] OTHER   -> c

(* strcmp(3): the difference of the first pair of bytes that differ. *)
RECURSIVE StrCmpFrom(_, _, _)
StrCmpFrom(a, b, i) ==
    IF At(a, i) # At(b, i) THEN Ord(At(a, i)) - Ord(At(b, i))
    ELSE IF At(a, i) = NUL THEN 0
    ELSE StrCmpFrom(a, b, i + 1)

strcmp(a, b) == StrCmpFrom(a, b, 1)

(* strncasecmp(3): as strcmp over at most n bytes, ignoring case. *)
RECURSIVE StrNCaseCmpFrom(_, _, _, _)
StrNCaseCmpFrom(a, b, n, i) ==
    IF i > n THEN 0
    ELSE IF ToLower(At(a, i)) # ToLower(At(b, i))
         THEN Ord(ToLower(At(a, i))) - Ord(ToLower(At(b, i)))
    ELSE IF At(a, i) = NUL THEN 0
    ELSE StrNCaseCmpFrom(a, b, n, i + 1)

strncasecmp(a, b, n) == StrNCaseCmpFrom(a, b, n, 1)

----------------------------------------------------------------------------
(* The filesystem. *)

FlagNames == { <<"a">>, <<"a", "b">> }

OnFile    == <<"o", "n", "\n">>
OffFile   == <<"o", "f", "f", "\n">>
EmptyFile == <<>>
BadFile   == <<"x", "\n">>

NoEnt == [ type |-> "none", readable |-> FALSE, data |-> <<>> ]

RegFile(data) == [ type |-> "reg", readable |-> TRUE, data |-> data ]

(* A regular file whose mode denies reading to the caller. *)
Unreadable(data) == [ type |-> "reg", readable |-> FALSE, data |-> data ]

SubDir == [ type |-> "dir", readable |-> TRUE, data |-> <<>> ]

Entries ==
    { NoEnt, RegFile(OnFile), RegFile(OffFile), RegFile(EmptyFile),
      RegFile(BadFile), Unreadable(OnFile), SubDir }

DirPaths == { CHKCONFIG_STATEDIR_DEFAULT, CHKCONFIG_DEFAULTDIR_DEFAULT }


PresentIn(f, d) == { n \in FlagNames : f[d][n].type # "none" }

FileCount(f) == Cardinality(PresentIn(f, CHKCONFIG_STATEDIR_DEFAULT))
                + Cardinality(PresentIn(f, CHKCONFIG_DEFAULTDIR_DEFAULT))

(* The entry a path "<dir>/<name>" names in a filesystem f; NoEnt when     *)
(* there is none.                                                          *)
LookupIn(f, path) ==
    IF path.dir \in DOMAIN f /\ path.name \in DOMAIN f[path.dir]
    THEN f[path.dir][path.name]
    ELSE NoEnt

Lookup(path) == LookupIn(fs, path)

----------------------------------------------------------------------------
(* Utility. *)

Failed(status) == status < CHKCONFIG_STATUS_SUCCESS

(* chkconfigStateStringGetState, were the whole string compared, case and  *)
(* all, with the state strings.                                            *)
StateStringGetStateExactly(inStateString, outState) ==
    IF inStateString = NullFlag
    THEN [ status |-> -EINVAL, state |-> outState ]
    ELSE IF strcmp(inStateString, sOnStateString) = 0
    THEN [ status |-> CHKCONFIG_STATUS_SUCCESS, state |-> TRUE ]
    ELSE IF strcmp(inStateString, sOffStateString) = 0
    THEN [ status |-> CHKCONFIG_STATUS_SUCCESS, state |-> FALSE ]
    ELSE [ status |-> -EINVAL, state |-> outState ]

(* Parse a state string. outState is written only on success. *)
chkconfigStateStringGetState(inStateString, outState) ==
    IF inStateString = NullFlag
    THEN [ status |-> -EINVAL, state |-> outState ]
    ELSE IF strncasecmp(inStateString, sOnStateString, Len(sOnStateString)) = 0
    THEN [ status |-> CHKCONFIG_STATUS_SUCCESS, state |-> TRUE ]
    ELSE IF strncasecmp(inStateString, sOffStateString, Len(sOffStateString)) = 0
    THEN [ status |-> CHKCONFIG_STATUS_SUCCESS, state |-> FALSE ]
    ELSE [ status |-> -EINVAL, state |-> outState ]

chkconfigStateGetStateString(inState) ==
    IF inState THEN sOnStateString ELSE sOffStateString

----------------------------------------------------------------------------
(* Observers. *)

(* chkconfigFlagPathCopy, were the empty flag let through. *)
FlagPathCopyOfEmptyFlag(inDirectory, inFlag) ==
    IF inDirectory = NullDir \/ inFlag = NullFlag
    THEN [ status |-> -EINVAL, path |-> [ dir |-> NullDir, name |-> <<>> ] ]
    ELSE [ status |-> CHKCONFIG_STATUS_SUCCESS,
           path   |-> [ dir |-> inDirectory, name |-> inFlag ] ]

(* The path "<inDirectory>/<inFlag>".  The flags and directories of the    *)
(* model are far shorter than PATH_MAX, so snprintf never truncates.       *)
chkconfigFlagPathCopy(inDirectory, inFlag) ==
    IF inDirectory = NullDir \/ inFlag = NullFlag \/ inFlag = <<>>
    THEN [ status |-> -EINVAL, path |-> [ dir |-> NullDir, name |-> <<>> ] ]
    ELSE [ status |-> CHKCONFIG_STATUS_SUCCESS,
           path   |-> [ dir |-> inDirectory, name |-> inFlag ] ]

chkconfigDefaultPathCopy(options, inFlag) ==
    chkconfigFlagPathCopy(options.m_default_dir, inFlag)

(* chkconfigStatePathCopy, were the path made in the default directory. *)
StatePathCopyInDefaultDirectory(options, inFlag) ==
    chkconfigFlagPathCopy(options.m_default_dir, inFlag)

chkconfigStatePathCopy(options, inFlag) ==
    chkconfigFlagPathCopy(options.m_state_dir, inFlag)

(* chkconfigStateGetPath, were a missing file to leave the caller's origin  *)
(* storage as it was.                                                       *)
StateGetPathKeepingOrigin(inOrigin, inNonexistentIsAnError, inFlagPath, outState, outOrigin) ==
    LET e == Lookup(inFlagPath) IN
    IF e.type = "none"
    THEN [ status |-> IF inNonexistentIsAnError THEN -ENOENT
                      ELSE CHKCONFIG_STATUS_SUCCESS,
           state  |-> FALSE,
           origin |-> outOrigin ]
    ELSE IF ~e.readable
    THEN [ status |-> -EACCES, state |-> outState, origin |-> outOrigin ]
    ELSE IF e.type = "dir"
    THEN [ status |-> -ENODEV, state |-> outState, origin |-> outOrigin ]
    ELSE IF Len(e.data) > 0
    THEN LET p == chkconfigStateStringGetState(e.data, FALSE) IN
         IF Failed(p.status)
         THEN [ status |-> p.status, state |-> FALSE, origin |-> outOrigin ]
         ELSE [ status |-> CHKCONFIG_STATUS_SUCCESS,
                state  |-> p.state,
                origin |-> inOrigin ]
    ELSE [ status |-> CHKCONFIG_STATUS_SUCCESS,
           state  |-> FALSE,
           origin |-> inOrigin ]

(* Read one backing file.  outState and outOrigin are the caller's storage: *)
(* they keep their previous values on the paths that do not assign them.    *)
(* open(2) fails with ENOENT on a missing entry and with EACCES on a file   *)
(* the caller may not read; a directory opens, and mmap(2) of it fails with *)
(* ENODEV.                                                                  *)
chkconfigStateGetPath(inOrigin, inNonexistentIsAnError, inFlagPath, outState, outOrigin) ==
    LET e == Lookup(inFlagPath) IN
    IF e.type = "none"
    THEN [ status |-> IF inNonexistentIsAnError THEN -ENOENT
                      ELSE CHKCONFIG_STATUS_SUCCESS,
           state  |-> FALSE,
           origin |-> CHKCONFIG_ORIGIN_NONE ]
    ELSE IF ~e.readable
    THEN [ status |-> -EACCES, state |-> outState, origin |-> outOrigin ]
    ELSE IF e.type = "dir"
    THEN [ status |-> -ENODEV, state |-> outState, origin |-> outOrigin ]
    ELSE IF Len(e.data) > 0
    THEN LET p == chkconfigStateStringGetState(e.data, FALSE) IN
         IF Failed(p.status)
         THEN [ status |-> p.status, state |-> FALSE, origin |-> outOrigin ]
         ELSE [ status |-> CHKCONFIG_STATUS_SUCCESS,
                state  |-> p.state,
                origin |-> inOrigin ]
    ELSE [ status |-> CHKCONFIG_STATUS_SUCCESS,
           state  |-> FALSE,
           origin |-> inOrigin ]

(* chkconfigUseDefaultDirectory, were it to ignore the switch. *)
UseDefaultDirectoryIgnoringSwitch(options) ==
    options.m_default_dir # NullDir

chkconfigUseDefaultDirectory(options) ==
    options.m_use_default_dir /\ options.m_default_dir # NullDir

(* The second attempt of chkconfigStateGet, in the default directory. *)
chkconfigStateGetDefault(options, lUseDefaultDirectory, inFlag, first) ==
    LET pc == chkconfigDefaultPathCopy(options, inFlag) IN
    IF Failed(pc.status)
    THEN [ status |-> pc.status, state |-> first.state, origin |-> first.origin ]
    ELSE chkconfigStateGetPath(CHKCONFIG_ORIGIN_DEFAULT,
                               ~lUseDefaultDirectory,
                               pc.path,
                               first.state,
                               first.origin)

(* chkconfigStateGet, were the second attempt made whenever the default    *)
(* directory is in use, the first having failed or not.                    *)
StateGetAlwaysFallingBack(options, inFlag, outState, outOrigin) ==
    LET lUseDefaultDirectory == chkconfigUseDefaultDirectory(options)
        first == chkconfigStateGetPath(
                     CHKCONFIG_ORIGIN_STATE, lUseDefaultDirectory,
                     chkconfigStatePathCopy(options, inFlag).path,
                     outState, outOrigin)
    IN
    IF lUseDefaultDirectory
    THEN chkconfigStateGetDefault(options, lUseDefaultDirectory, inFlag, first)
    ELSE first

(* Get the state and origin of a flag under the options of a context. *)
chkconfigStateGet(options, inFlag, outState, outOrigin) ==
    LET lUseDefaultDirectory == chkconfigUseDefaultDirectory(options)
        pc == chkconfigStatePathCopy(options, inFlag)
    IN
    IF Failed(pc.status)
    THEN [ status |-> pc.status, state |-> outState, origin |-> outOrigin ]
    ELSE LET first == chkconfigStateGetPath(CHKCONFIG_ORIGIN_STATE,
                                            lUseDefaultDirectory,
                                            pc.path,
                                            outState,
                                            outOrigin)
         IN
         IF Failed(first.status) /\ lUseDefaultDirectory
         THEN chkconfigStateGetDefault(options, lUseDefaultDirectory, inFlag, first)
         ELSE first

----------------------------------------------------------------------------
(* Flag/state tuples. *)

Tuple(flag, state, origin) ==
    [ m_flag |-> flag, m_state |-> state, m_origin |-> origin ]

(* One element of the zeroed array chkconfigFlagStateTuplesInit returns. *)
ZeroTuple == Tuple(NullFlag, FALSE, CHKCONFIG_ORIGIN_UNKNOWN)

(* The heap blocks of a tuple array: the array, when there is one (a null   *)
(* array is the empty sequence), and the flag of each tuple that has one.   *)
Blocks(tuples) ==
    IF tuples = <<>> THEN 0
    ELSE 1 + Cardinality({ i \in DOMAIN tuples : tuples[i].m_flag # NullFlag })

(* The blocks chkconfigFlagStateTuplesDestroy releases: the flag of each    *)
(* of the first inFlagStateTupleCount tuples that has one, and the array.   *)
(* The callers skip a null array.                                           *)
chkconfigFlagStateTuplesDestroy(inFlagStateTuples, inFlagStateTupleCount) ==
    IF inFlagStateTuples = <<>> THEN 0
    ELSE 1 + Cardinality({ i \in 1 .. inFlagStateTupleCount :
                             inFlagStateTuples[i].m_flag # NullFlag })

(* At most one allocation of a call fails: the array ("init") or the flag   *)
(* of the k-th tuple ("strdup") of the copy of the directory of an origin,  *)
(* or those of the union (origin unknown).  NoOom: every allocation         *)
(* succeeds.                                                                *)
Oom(site, origin, k) == [ site |-> site, origin |-> origin, k |-> k ]

NoOom == Oom("none", CHKCONFIG_ORIGIN_UNKNOWN, 0)

chkconfigFlagStateTupleFlagSortFunction(inFirstTuple, inSecondTuple) ==
    strcmp(inFirstTuple.m_flag, inSecondTuple.m_flag)

(* The int a chkconfig_state_t, a bool, converts to. *)
StateInt(inState) == IF inState THEN 1 ELSE 0

(* chkconfigFlagStateTupleStateSortFunction, were the states subtracted    *)
(* the other way round.                                                    *)
StateSortFunctionFalseFirst(inFirstTuple, inSecondTuple) ==
    IF StateInt(inFirstTuple.m_state) - StateInt(inSecondTuple.m_state) # 0
    THEN StateInt(inFirstTuple.m_state) - StateInt(inSecondTuple.m_state)
    ELSE chkconfigFlagStateTupleFlagSortFunction(inFirstTuple, inSecondTuple)

(* The state is the primary sort key and the flag the secondary one. *)
chkconfigFlagStateTupleStateSortFunction(inFirstTuple, inSecondTuple) ==
    IF StateInt(inSecondTuple.m_state) - StateInt(inFirstTuple.m_state) # 0
    THEN StateInt(inSecondTuple.m_state) - StateInt(inFirstTuple.m_state)
    ELSE chkconfigFlagStateTupleFlagSortFunction(inFirstTuple, inSecondTuple)

(* operator <(tuple, tuple), the order std::set_union merges by. *)
TupleLess(inLeftTuple, inRightTuple) ==
    strcmp(inLeftTuple.m_flag, inRightTuple.m_flag) < 0

(* qsort(3) of a tuple array by the flag compare function (an insertion     *)
(* sort: the order of equal elements, which qsort leaves open, does not     *)
(* arise, as the names of one directory are distinct).                      *)
RECURSIVE InsertByFlag(_, _)
InsertByFlag(sorted, t) ==
    IF sorted = <<>> THEN <<t>>
    ELSE IF chkconfigFlagStateTupleFlagSortFunction(t, Head(sorted)) < 0
    THEN <<t>> \o sorted
    ELSE <<Head(sorted)>> \o InsertByFlag(Tail(sorted), t)

RECURSIVE SortByFlagFrom(_, _)
SortByFlagFrom(tuples, sorted) ==
    IF tuples = <<>> THEN sorted
    ELSE SortByFlagFrom(Tail(tuples), InsertByFlag(sorted, Head(tuples)))

SortByFlag(tuples) == SortByFlagFrom(tuples, <<>>)

(* std::set_union over two ranges, each sorted by operator <: the elements  *)
(* of either, an element of both taken once, from the left range.           *)
RECURSIVE SetUnion(_, _)
SetUnion(left, right) ==
    IF left = <<>> THEN right
    ELSE IF right = <<>> THEN left
    ELSE IF TupleLess(Head(left), Head(right))
    THEN <<Head(left)>> \o SetUnion(Tail(left), right)
    ELSE IF TupleLess(Head(right), Head(left))
    THEN <<Head(right)>> \o SetUnion(left, Tail(right))
    ELSE <<Head(left)>> \o SetUnion(Tail(left), Tail(right))

(* The count of the union, were the two ranges counted apart and added. *)
CountUnionAddingBoth(left, right) ==
    Len(left) + Len(right)

(* The union through the counting output iterator. *)
chkconfigFlagStateTupleCountUnion(left, right) ==
    Len(SetUnion(left, right))

(* The union through the assigning output iterator, whose operator =        *)
(* duplicates the flag with strdup and does not test the result.            *)
FlagStateTupleOutputAssignmentIterator(u, oom) ==
    [ i \in 1 .. Len(u) |->
        IF oom = Oom("strdup", CHKCONFIG_ORIGIN_UNKNOWN, i)
        THEN Tuple(NullFlag, u[i].m_state, u[i].m_origin)
        ELSE u[i] ]

chkconfigFlagStateTupleCopyUnionRange(left, right, oom) ==
    FlagStateTupleOutputAssignmentIterator(SetUnion(left, right), oom)

(* The outcome of an operation that builds a tuple array: heap is the      *)
(* number of blocks the operation allocated that are still allocated when  *)
(* it returns, those of the array it hands out included.                   *)
Built(status, tuples, count, heap) ==
    [ status |-> status, tuples |-> tuples, count |-> count, heap |-> heap ]

(* The outcome that hands out the array it built. *)
BuiltArray(tuples, count) ==
    Built(CHKCONFIG_STATUS_SUCCESS, tuples, count, Blocks(tuples))

(* Sort both arrays by flag, count their union and, when it is not empty,   *)
(* allocate and populate it.                                                *)
chkconfigFlagStateTupleCopyUnionSorted(left, right, lUnionCount, oom) ==
    IF lUnionCount > 0 /\ oom = Oom("init", CHKCONFIG_ORIGIN_UNKNOWN, 0)
    THEN Built(-ENOMEM, <<>>, 0, 0)
    ELSE BuiltArray(IF lUnionCount > 0
                    THEN chkconfigFlagStateTupleCopyUnionRange(left, right, oom)
                    ELSE <<>>,
                    lUnionCount)

chkconfigFlagStateTupleCopyUnion(inLeft, inRight, oom) ==
    chkconfigFlagStateTupleCopyUnionSorted(
        SortByFlag(inLeft), SortByFlag(inRight),
        chkconfigFlagStateTupleCountUnion(SortByFlag(inLeft), SortByFlag(inRight)),
        oom)

----------------------------------------------------------------------------
(* Enumeration of a directory. *)

Dot    == <<".">>
DotDot == <<".", ".">>

DirExists(d) == d \in DOMAIN fs

(* stat(2) of "<dir>/<name>": "." and ".." are directories. *)
Stat(path) ==
    IF DirExists(path.dir) /\ path.name \in { Dot, DotDot } THEN SubDir
    ELSE Lookup(path)

(* What readdir(3) yields for a directory whose names come in the order     *)
(* given.  "." and ".." are put first: they are skipped as non-regular      *)
(* wherever they come.                                                      *)
Listing(order) == <<Dot, DotDot>> \o order

(* The orders in which readdir may yield the names of a directory. *)
Orders(d) ==
    IF DirExists(d)
    THEN { o \in [ 1 .. Cardinality(PresentIn(fs, d)) -> PresentIn(fs, d) ] :
             \A i, j \in DOMAIN o : i # j => o[i] # o[j] }
    ELSE { <<>> }

(* chkconfigStateGetCountDir, were "." and ".." left out by name and every  *)
(* other entry counted, whatever its type.                                  *)
RECURSIVE GetCountDirByName(_, _, _, _)
GetCountDirByName(inDirectoryPath, listing, pos, lCount) ==
    IF pos > Len(listing)
    THEN [ status |-> CHKCONFIG_STATUS_SUCCESS, count |-> lCount ]
    ELSE LET pc == chkconfigFlagPathCopy(inDirectoryPath, listing[pos]) IN
         IF Failed(pc.status) THEN [ status |-> pc.status, count |-> 0 ]
         ELSE IF Stat(pc.path).type = "none"
         THEN [ status |-> -ENOENT, count |-> 0 ]
         ELSE GetCountDirByName(
                  inDirectoryPath, listing, pos + 1,
                  IF listing[pos] \notin { Dot, DotDot }
                  THEN lCount + 1 ELSE lCount)

(* Count the regular files among the entries of an open directory. *)
RECURSIVE chkconfigStateGetCountDir(_, _, _, _)
chkconfigStateGetCountDir(inDirectoryPath, listing, pos, lCount) ==
    IF pos > Len(listing)
    THEN [ status |-> CHKCONFIG_STATUS_SUCCESS, count |-> lCount ]
    ELSE LET pc == chkconfigFlagPathCopy(inDirectoryPath, listing[pos]) IN
         IF Failed(pc.status) THEN [ status |-> pc.status, count |-> 0 ]
         ELSE IF Stat(pc.path).type = "none"
         THEN [ status |-> -ENOENT, count |-> 0 ]
         ELSE chkconfigStateGetCountDir(
                  inDirectoryPath, listing, pos + 1,
                  IF Stat(pc.path).type = "reg" THEN lCount + 1 ELSE lCount)

(* chkconfigStateGetCountPath, were a directory that cannot be opened taken *)
(* for one without entries.                                                 *)
GetCountPathOfMissingAsEmpty(inDirectoryPath, order) ==
    IF inDirectoryPath = NullDir THEN [ status |-> -EINVAL, count |-> 0 ]
    ELSE IF ~DirExists(inDirectoryPath)
    THEN [ status |-> CHKCONFIG_STATUS_SUCCESS, count |-> 0 ]
    ELSE chkconfigStateGetCountDir(inDirectoryPath, Listing(order), 1, 0)

(* Open a directory and count its regular files. *)
chkconfigStateGetCountPath(inDirectoryPath, order) ==
    IF inDirectoryPath = NullDir THEN [ status |-> -EINVAL, count |-> 0 ]
    ELSE IF ~DirExists(inDirectoryPath) THEN [ status |-> -ENOENT, count |-> 0 ]
    ELSE chkconfigStateGetCountDir(inDirectoryPath, Listing(order), 1, 0)

(* Populate at most inCount tuples from the regular files of an open        *)
(* directory.  The tuples filled so far are returned on failure as well.    *)
RECURSIVE chkconfigStateGetAll(_, _, _, _, _, _, _, _)

(* The loop body of chkconfigStateGetAll for a regular file, after its      *)
(* state was read into the current tuple with outcome r: then the flag is   *)
(* duplicated into the tuple.                                               *)
chkconfigStateGetAllEntry(inOrigin, inDirectoryPath, listing, pos, tuples, lIndex, inCount, oom, r) ==
    IF Failed(r.status)
    THEN [ status |-> r.status,
           tuples |-> [ tuples EXCEPT ![lIndex + 1].m_state  = r.state,
                                      ![lIndex + 1].m_origin = r.origin ] ]
    ELSE IF oom = Oom("strdup", inOrigin, lIndex + 1)
    THEN [ status |-> -ENOMEM,
           tuples |-> [ tuples EXCEPT ![lIndex + 1].m_state  = r.state,
                                      ![lIndex + 1].m_origin = r.origin ] ]
    ELSE chkconfigStateGetAll(
             inOrigin, inDirectoryPath, listing, pos + 1,
             [ tuples EXCEPT ![lIndex + 1] = Tuple(listing[pos], r.state, r.origin) ],
             lIndex + 1, inCount, oom)

chkconfigStateGetAll(inOrigin, inDirectoryPath, listing, pos, tuples, lIndex, inCount, oom) ==
    IF pos > Len(listing) \/ ~(lIndex < inCount)
    THEN [ status |-> CHKCONFIG_STATUS_SUCCESS, tuples |-> tuples ]
    ELSE LET pc == chkconfigFlagPathCopy(inDirectoryPath, listing[pos]) IN
         IF Failed(pc.status) THEN [ status |-> pc.status, tuples |-> tuples ]
         ELSE IF Stat(pc.path).type = "none"
         THEN [ status |-> -ENOENT, tuples |-> tuples ]
         ELSE IF Stat(pc.path).type = "reg"
         THEN chkconfigStateGetAllEntry(
                  inOrigin, inDirectoryPath, listing, pos, tuples, lIndex,
                  inCount, oom,
                  chkconfigStateGetPath(inOrigin, FALSE, pc.path,
                                        tuples[lIndex + 1].m_state,
                                        tuples[lIndex + 1].m_origin))
         ELSE chkconfigStateGetAll(inOrigin, inDirectoryPath, listing, pos + 1,
                                   tuples, lIndex, inCount, oom)

(* chkconfigStateCopyAllDone, were the array left as it is on failure. *)
CopyAllDoneWithoutDestroy(lFlagStateTuplesCount, all) ==
    IF Failed(all.status)
    THEN Built(all.status, <<>>, 0, Blocks(all.tuples))
    ELSE BuiltArray(all.tuples, lFlagStateTuplesCount)

(* Count the backing files of a directory, then copy them: the array and    *)
(* the count are handed out on success only; on failure the array is        *)
(* destroyed.                                                               *)
chkconfigStateCopyAllDone(lFlagStateTuplesCount, all) ==
    IF Failed(all.status)
    THEN Built(all.status, <<>>, 0,
               Blocks(all.tuples)
               - chkconfigFlagStateTuplesDestroy(all.tuples,
                                                 lFlagStateTuplesCount))
    ELSE BuiltArray(all.tuples, lFlagStateTuplesCount)

(* chkconfigStateCopyAllCounted, were the array allocated whatever the      *)
(* count: chkconfigFlagStateTuplesInit rejects a count of 0 with -EINVAL.   *)
CopyAllCountedWithoutEmptyTest(inOrigin, inDirectoryPath, order, oom, cnt) ==
    IF Failed(cnt.status)
    THEN Built(cnt.status, <<>>, 0, 0)
    ELSE IF cnt.count = 0
    THEN Built(-EINVAL, <<>>, 0, 0)
    ELSE IF oom = Oom("init", inOrigin, 0)
    THEN Built(-ENOMEM, <<>>, 0, 0)
    ELSE chkconfigStateCopyAllDone(
             cnt.count,
             chkconfigStateGetAll(inOrigin, inDirectoryPath, Listing(order), 1,
                                  [ i \in 1 .. cnt.count |-> ZeroTuple ],
                                  0, cnt.count, oom))

chkconfigStateCopyAllCounted(inOrigin, inDirectoryPath, order, oom, cnt) ==
    IF Failed(cnt.status)
    THEN Built(cnt.status, <<>>, 0, 0)
    ELSE IF cnt.count = 0
    THEN BuiltArray(<<>>, 0)
    ELSE IF oom = Oom("init", inOrigin, 0)
    THEN Built(-ENOMEM, <<>>, 0, 0)
    ELSE chkconfigStateCopyAllDone(
             cnt.count,
             chkconfigStateGetAll(inOrigin, inDirectoryPath, Listing(order), 1,
                                  [ i \in 1 .. cnt.count |-> ZeroTuple ],
                                  0, cnt.count, oom))

chkconfigStateCopyAllPath(inOrigin, inDirectoryPath, order, oom) ==
    chkconfigStateCopyAllCounted(
        inOrigin, inDirectoryPath, order, oom,
        chkconfigStateGetCountPath(inDirectoryPath, order))

(* Copy the default directory, then the state directory, then their union   *)
(* with the state tuples as the left-hand range.  However the copy ends,    *)
(* the arrays of the two directories that were built are destroyed.         *)
chkconfigStateCopyAllWithDefaultDirectoryDone(d, s, u) ==
    [ u EXCEPT !.heap =
        u.heap
        + (d.heap - chkconfigFlagStateTuplesDestroy(d.tuples, d.count))
        + (s.heap - chkconfigFlagStateTuplesDestroy(s.tuples, s.count)) ]

chkconfigStateCopyAllUnion(d, s, oom) ==
    IF Failed(s.status)
    THEN chkconfigStateCopyAllWithDefaultDirectoryDone(
             d, s, Built(s.status, <<>>, 0, 0))
    ELSE chkconfigStateCopyAllWithDefaultDirectoryDone(
             d, s, chkconfigFlagStateTupleCopyUnion(s.tuples, d.tuples, oom))

chkconfigStateCopyAllThenState(options, stateOrder, oom, d) ==
    IF Failed(d.status) THEN d
    ELSE chkconfigStateCopyAllUnion(
             d,
             chkconfigStateCopyAllPath(CHKCONFIG_ORIGIN_STATE,
                                       options.m_state_dir, stateOrder, oom),
             oom)

chkconfigStateCopyAllWithDefaultDirectory(options, stateOrder, defaultOrder, oom) ==
    chkconfigStateCopyAllThenState(
        options, stateOrder, oom,
        chkconfigStateCopyAllPath(CHKCONFIG_ORIGIN_DEFAULT,
                                  options.m_default_dir, defaultOrder, oom))

chkconfigStateCopyAll(options, stateOrder, defaultOrder, oom) ==
    IF ~chkconfigUseDefaultDirectory(options)
    THEN chkconfigStateCopyAllPath(CHKCONFIG_ORIGIN_STATE,
                                   options.m_state_dir, stateOrder, oom)
    ELSE chkconfigStateCopyAllWithDefaultDirectory(options, stateOrder,
                                                   defaultOrder, oom)

(* The count of the union: the union is copied, counted and destroyed. *)
CountOfUnion(u) == [ status |-> u.status, count |-> u.count ]

chkconfigStateGetCountWithDefaultDirectory(options, stateOrder, defaultOrder, oom) ==
    CountOfUnion(chkconfigStateCopyAllWithDefaultDirectory(
                     options, stateOrder, defaultOrder, oom))

(* chkconfigStateGetCount, were it to count the state directory alone in   *)
(* either mode.                                                            *)
GetCountOfStateDirectoryOnly(options, stateOrder, defaultOrder, oom) ==
    chkconfigStateGetCountPath(options.m_state_dir, stateOrder)

chkconfigStateGetCount(options, stateOrder, defaultOrder, oom) ==
    IF ~chkconfigUseDefaultDirectory(options)
    THEN chkconfigStateGetCountPath(options.m_state_dir, stateOrder)
    ELSE chkconfigStateGetCountWithDefaultDirectory(options, stateOrder,
                                                    defaultOrder, oom)

----------------------------------------------------------------------------
(* Observation of several flags. *)

(* The array after the lookup of the tuple at pos ended with outcome r:     *)
(* chkconfigStateGet writes the state and the origin of that tuple.         *)
FlagStateTupleGot(inFlagStateTuples, pos, r) ==
    [ inFlagStateTuples EXCEPT ![pos].m_state  = r.state,
                               ![pos].m_origin = r.origin ]

(* chkconfigStateGetMultiple, were it to go on after a lookup that failed   *)
(* and return the status of the last one.                                  *)
RECURSIVE StateGetMultipleGoingOn(_, _, _, _)
StateGetMultipleGoingOn(options, inFlagStateTuples, pos, status) ==
    IF pos > Len(inFlagStateTuples)
    THEN [ status |-> status, tuples |-> inFlagStateTuples ]
    ELSE StateGetMultipleGoingOn(
             options,
             FlagStateTupleGot(
                 inFlagStateTuples, pos,
                 chkconfigStateGet(options,
                                   inFlagStateTuples[pos].m_flag,
                                   inFlagStateTuples[pos].m_state,
                                   inFlagStateTuples[pos].m_origin)),
             pos + 1,
             chkconfigStateGet(options,
                               inFlagStateTuples[pos].m_flag,
                               inFlagStateTuples[pos].m_state,
                               inFlagStateTuples[pos].m_origin).status)

(* Get the state and origin of each tuple of an array, in array order, up   *)
(* to the first lookup that fails.  status is that of the last lookup       *)
(* made, or success where none was.                                         *)
RECURSIVE chkconfigStateGetMultiple(_, _, _, _)
chkconfigStateGetMultiple(options, inFlagStateTuples, pos, status) ==
    IF pos > Len(inFlagStateTuples) \/ Failed(status)
    THEN [ status |-> status, tuples |-> inFlagStateTuples ]
    ELSE chkconfigStateGetMultiple(
             options,
             FlagStateTupleGot(
                 inFlagStateTuples, pos,
                 chkconfigStateGet(options,
                                   inFlagStateTuples[pos].m_flag,
                                   inFlagStateTuples[pos].m_state,
                                   inFlagStateTuples[pos].m_origin)),
             pos + 1,
             chkconfigStateGet(options,
                               inFlagStateTuples[pos].m_flag,
                               inFlagStateTuples[pos].m_state,
                               inFlagStateTuples[pos].m_origin).status)

----------------------------------------------------------------------------
(* Mutators. *)

(* WriteFileIn, were the file opened without O_TRUNC and the state string  *)
(* printed after what the file held.                                       *)
WriteFileInWithoutTruncation(f, path, inState) ==
    LET old == LookupIn(f, path)
        new == [ type     |-> "reg",
                 readable |-> IF old.type = "none" THEN TRUE ELSE old.readable,
                 data     |-> old.data
                              \o chkconfigStateGetStateString(inState)
                              \o <<"\n">> ]
    IN [ f EXCEPT ![path.dir][path.name] = new ]

(* The filesystem after "<state dir>/<flag>" holds the state string and a   *)
(* newline.  A created file is readable (DEFFILEMODE); an existing file     *)
(* keeps its mode, which lets the caller write it (an unreadable file is    *)
(* write-only).                                                             *)
WriteFileIn(f, path, inState) ==
    LET old == LookupIn(f, path)
        new == [ type     |-> "reg",
                 readable |-> IF old.type = "none" THEN TRUE ELSE old.readable,
                 data     |-> chkconfigStateGetStateString(inState) \o <<"\n">> ]
    IN [ f EXCEPT ![path.dir][path.name] = new ]

WriteFile(path, inState) == WriteFileIn(fs, path, inState)

(* Set the state of a flag in a filesystem f: open(2) with O_WRONLY |       *)
(* O_TRUNC, and O_CREAT when m_force_state is asserted, then print the      *)
(* state string.  Returns the status and the filesystem after the call.     *)
chkconfigStateSetIn(f, options, inFlag, inState) ==
    LET pc == chkconfigStatePathCopy(options, inFlag)
        e  == LookupIn(f, pc.path)
    IN
    IF inFlag = NullFlag \/ inFlag = <<>>
    THEN [ status |-> -EINVAL, fs |-> f ]
    ELSE IF Failed(pc.status) THEN [ status |-> pc.status, fs |-> f ]
    ELSE IF e.type = "dir" THEN [ status |-> -EISDIR, fs |-> f ]
    ELSE IF e.type = "none"
            /\ (~options.m_force_state \/ pc.path.dir \notin DOMAIN f)
    THEN [ status |-> -ENOENT, fs |-> f ]
    ELSE [ status |-> CHKCONFIG_STATUS_SUCCESS,
           fs     |-> WriteFileIn(f, pc.path, inState) ]

(* chkconfigStateSet, were O_CREAT used whether m_force_state is asserted   *)
(* or not.                                                                 *)
StateSetAlwaysCreating(options, inFlag, inState) ==
    LET pc == chkconfigStatePathCopy(options, inFlag)
        e  == Lookup(pc.path)
    IN
    IF inFlag = NullFlag \/ inFlag = <<>>
    THEN [ status |-> -EINVAL, fs |-> fs ]
    ELSE IF Failed(pc.status) THEN [ status |-> pc.status, fs |-> fs ]
    ELSE IF e.type = "dir" THEN [ status |-> -EISDIR, fs |-> fs ]
    ELSE IF e.type = "none" /\ ~DirExists(pc.path.dir)
    THEN [ status |-> -ENOENT, fs |-> fs ]
    ELSE [ status |-> CHKCONFIG_STATUS_SUCCESS, fs |-> WriteFile(pc.path, inState) ]

(* chkconfigStateSet on the filesystem as it is. *)
chkconfigStateSet(options, inFlag, inState) ==
    chkconfigStateSetIn(fs, options, inFlag, inState)

(* chkconfigStateSetMultiple, were it to go on after a set that failed and  *)
(* return the status of the last one.                                      *)
RECURSIVE StateSetMultipleGoingOn(_, _, _, _, _)
StateSetMultipleGoingOn(f, options, inFlagStateTuples, pos, status) ==
    IF pos > Len(inFlagStateTuples)
    THEN [ status |-> status, fs |-> f ]
    ELSE StateSetMultipleGoingOn(
             chkconfigStateSetIn(f, options, inFlagStateTuples[pos].m_flag,
                                 inFlagStateTuples[pos].m_state).fs,
             options, inFlagStateTuples, pos + 1,
             chkconfigStateSetIn(f, options, inFlagStateTuples[pos].m_flag,
                                 inFlagStateTuples[pos].m_state).status)

(* Set the states of the tuples of an array, in array order, up to the      *)
(* first that fails.  status is that of the last set made, or success       *)
(* where none was.                                                          *)
RECURSIVE chkconfigStateSetMultiple(_, _, _, _, _)
chkconfigStateSetMultiple(f, options, inFlagStateTuples, pos, status) ==
    IF pos > Len(inFlagStateTuples) \/ Failed(status)
    THEN [ status |-> status, fs |-> f ]
    ELSE chkconfigStateSetMultiple(
             chkconfigStateSetIn(f, options, inFlagStateTuples[pos].m_flag,
                                 inFlagStateTuples[pos].m_state).fs,
             options, inFlagStateTuples, pos + 1,
             chkconfigStateSetIn(f, options, inFlagStateTuples[pos].m_flag,
                                 inFlagStateTuples[pos].m_state).status)

----------------------------------------------------------------------------
(* Contexts and options. *)

DeadContext == [ live |-> FALSE, m_options |-> NullRef ]

FreeOptions ==
    [ live              |-> FALSE,
      m_state_dir       |-> NullDir,
      m_force_state     |-> FALSE,
      m_use_default_dir |-> FALSE,
      m_default_dir     |-> NullDir ]

LiveOptions(state_dir, force_state, use_default_dir, default_dir) ==
    [ live              |-> TRUE,
      m_state_dir       |-> state_dir,
      m_force_state     |-> force_state,
      m_use_default_dir |-> use_default_dir,
      m_default_dir     |-> default_dir ]

(* The options a context's m_options points to. *)
Deref(ref) ==
    IF ref = DefaultRef THEN sChkconfigOptionsDefault ELSE opts[ref]

ContextOptions(c) == Deref(ctxs[c].m_options)

LiveContexts == { c \in CtxIds : ctxs[c].live }

----------------------------------------------------------------------------
(* The outcome of a call: the operation, its arguments, the status and     *)
(* what the caller's storage holds when it returns.                        *)

NoRes ==
    [ op     |-> "none",
      ctx    |-> 0,
      opt    |-> NullRef,
      flag   |-> <<>>,
      status |-> CHKCONFIG_STATUS_SUCCESS,
      state  |-> FALSE,
      origin |-> CHKCONFIG_ORIGIN_UNKNOWN,
      count  |-> 0,
      tuples |-> <<>>,
      heap   |-> 0,
      string |-> <<>>,
      order  |-> <<>>,
      given  |-> <<>>,
      null   |-> FALSE,
      optflags |-> {},
      exit   |-> 0 ]

(* The library is called by one thread: a call is made when the previous   *)
(* one has returned and the caller has taken its outcome.                   *)
Idle == res.op = "none"

Return ==
    /\ ~Idle
    /\ res' = NoRes
    /\ UNCHANGED <<ctxs, opts, held, fs>>

FlagArguments == FlagNames \cup { <<>>, NullFlag }

(* chkconfig_state_get_with_origin: the caller's state storage holds any    *)
(* value before the call, its origin storage CHKCONFIG_ORIGIN_UNKNOWN.      *)
GetOutcome(c, flag, r) ==
    [ NoRes EXCEPT !.op = "get_state", !.ctx = c, !.flag = flag,
                   !.status = r.status, !.state = r.state, !.origin = r.origin ]

StateGetWithOrigin(c, flag, state0) ==
    /\ Idle
    /\ res' = GetOutcome(c, flag,
                         chkconfigStateGet(ContextOptions(c), flag, state0,
                                           CHKCONFIG_ORIGIN_UNKNOWN))
    /\ UNCHANGED <<ctxs, opts, held, fs>>

(* chkconfig_state_get_count: the caller's count storage holds 0 before     *)
(* the call.                                                                *)
CountOutcome(c, r) ==
    [ NoRes EXCEPT !.op = "get_count", !.ctx = c,
                   !.status = r.status, !.count = r.count ]

StateGetCount(c, stateOrder, defaultOrder, oom) ==
    /\ Idle
    /\ res' = CountOutcome(c, chkconfigStateGetCount(ContextOptions(c), stateOrder,
                                                     defaultOrder, oom))
    /\ UNCHANGED <<ctxs, opts, held, fs>>

(* chkconfig_state_copy_all: the caller's storage holds a null array and a  *)
(* count of 0 before the call.                                              *)
CopyOutcome(c, r) ==
    [ NoRes EXCEPT !.op = "copy_all", !.ctx = c, !.status = r.status,
                   !.count = r.count, !.tuples = r.tuples,
                   !.heap = r.heap ]

StateCopyAll(c, stateOrder, defaultOrder, oom) ==
    /\ Idle
    /\ res' = CopyOutcome(c, chkconfigStateCopyAll(ContextOptions(c), stateOrder,
                                                   defaultOrder, oom))
    /\ UNCHANGED <<ctxs, opts, held, fs>>

(* chkconfig_state_set.  The model holds at most MaxFiles entries: a call   *)
(* that would create one more is not taken.                                 *)
StateSet(c, flag, state) ==
    LET r == chkconfigStateSet(ContextOptions(c), flag, state) IN
    /\ Idle
    /\ FileCount(r.fs) <= MaxFiles
    /\ fs' = r.fs
    /\ res' = [ NoRes EXCEPT !.op = "set_state", !.ctx = c, !.flag = flag,
                             !.status = r.status, !.state = state ]
    /\ UNCHANGED <<ctxs, opts, held>>

----------------------------------------------------------------------------
(* Lifetime management and option management. *)

(* chkconfig_init: a new context, bound to the default options.  Addresses  *)
(* are interchangeable: new yields the lowest free one.                     *)
ContextInit(c) ==
    /\ Idle
    /\ ~ctxs[c].live
    /\ \A b \in CtxIds : b < c => ctxs[b].live
    /\ ctxs' = [ ctxs EXCEPT ![c] = [ live |-> TRUE, m_options |-> DefaultRef ] ]
    /\ res' = [ NoRes EXCEPT !.op = "init", !.ctx = c ]
    /\ UNCHANGED <<opts, held, fs>>

(* chkconfigOptionsInit, were the new options handed to the caller without  *)
(* being made the options of the context.                                   *)
OptionsInitWithoutBinding(c, o, fail) ==
    IF fail = "state_dir"
    THEN [ status  |-> -ENOMEM,
           ctxs    |-> ctxs,
           opts    |-> [ opts EXCEPT ![o] = [ FreeOptions EXCEPT !.live = TRUE ] ],
           held    |-> held ]
    ELSE IF fail = "default_dir"
    THEN [ status  |-> -ENOMEM,
           ctxs    |-> ctxs,
           opts    |-> [ opts EXCEPT ![o] =
                           LiveOptions(sChkconfigOptionsDefault.m_state_dir,
                                       sChkconfigOptionsDefault.m_force_state,
                                       sChkconfigOptionsDefault.m_use_default_dir,
                                       NullDir) ],
           held    |-> held ]
    ELSE [ status  |-> CHKCONFIG_STATUS_SUCCESS,
           ctxs    |-> ctxs,
           opts    |-> [ opts EXCEPT ![o] =
                           LiveOptions(sChkconfigOptionsDefault.m_state_dir,
                                       sChkconfigOptionsDefault.m_force_state,
                                       sChkconfigOptionsDefault.m_use_default_dir,
                                       sChkconfigOptionsDefault.m_default_dir) ],
           held    |-> held \cup { o } ]

(* chkconfig_options_init: new options at a free address o, seeded from     *)
(* the defaults; either strdup may fail ("state_dir", "default_dir"), and   *)
(* then the object is neither bound, nor returned, nor deleted.  The fields *)
(* not yet assigned at the failure are shown as those of freed options.     *)
chkconfigOptionsInit(c, o, fail) ==
    IF fail = "state_dir"
    THEN [ status  |-> -ENOMEM,
           ctxs    |-> ctxs,
           opts    |-> [ opts EXCEPT ![o] = [ FreeOptions EXCEPT !.live = TRUE ] ],
           held    |-> held ]
    ELSE IF fail = "default_dir"
    THEN [ status  |-> -ENOMEM,
           ctxs    |-> ctxs,
           opts    |-> [ opts EXCEPT ![o] =
                           LiveOptions(sChkconfigOptionsDefault.m_state_dir,
                                       sChkconfigOptionsDefault.m_force_state,
                                       sChkconfigOptionsDefault.m_use_default_dir,
                                       NullDir) ],
           held    |-> held ]
    ELSE [ status  |-> CHKCONFIG_STATUS_SUCCESS,
           ctxs    |-> [ ctxs EXCEPT ![c].m_options = o ],
           opts    |-> [ opts EXCEPT ![o] =
                           LiveOptions(sChkconfigOptionsDefault.m_state_dir,
                                       sChkconfigOptionsDefault.m_force_state,
                                       sChkconfigOptionsDefault.m_use_default_dir,
                                       sChkconfigOptionsDefault.m_default_dir) ],
           held    |-> held \cup { o } ]

OptionsInit(c, o, fail) ==
    LET r == chkconfigOptionsInit(c, o, fail) IN
    /\ Idle
    /\ ctxs[c].live
    /\ ~opts[o].live
    /\ \A p \in OptIds : p < o => opts[p].live
    /\ ctxs' = r.ctxs
    /\ opts' = r.opts
    /\ held' = r.held
    /\ res' = [ NoRes EXCEPT !.op = "options_init", !.ctx = c,
                             !.opt = IF Failed(r.status) THEN NullRef ELSE o,
                             !.status = r.status ]
    /\ UNCHANGED fs

(* chkconfigOptionsDestroy, were the context left bound to the options     *)
(* being destroyed.                                                        *)
OptionsDestroyWithoutRebinding(c, o) ==
    IF o = NullRef
    THEN [ status |-> -EINVAL, ctxs |-> ctxs, opts |-> opts, held |-> held ]
    ELSE [ status |-> CHKCONFIG_STATUS_SUCCESS,
           ctxs   |-> ctxs,
           opts   |-> [ opts EXCEPT ![o] = FreeOptions ],
           held   |-> held \ { o } ]

(* chkconfig_options_destroy: rebind the context if it references the       *)
(* options, free the strings, delete the object and null the caller's       *)
(* pointer.                                                                 *)
chkconfigOptionsDestroy(c, o) ==
    IF o = NullRef
    THEN [ status |-> -EINVAL, ctxs |-> ctxs, opts |-> opts, held |-> held ]
    ELSE [ status |-> CHKCONFIG_STATUS_SUCCESS,
           ctxs   |-> IF ctxs[c].m_options = o
                      THEN [ ctxs EXCEPT ![c].m_options = DefaultRef ]
                      ELSE ctxs,
           opts   |-> [ opts EXCEPT ![o] = FreeOptions ],
           held   |-> held \ { o } ]

OptionsDestroy(c, o) ==
    LET r == chkconfigOptionsDestroy(c, o) IN
    /\ Idle
    /\ ctxs[c].live
    /\ o \in held \cup { NullRef }
    /\ ctxs' = r.ctxs
    /\ opts' = r.opts
    /\ held' = r.held
    /\ res' = [ NoRes EXCEPT !.op = "options_destroy", !.ctx = c, !.opt = o,
                             !.status = r.status ]
    /\ UNCHANGED fs

(* chkconfig_destroy: delete the context; the options it references, if     *)
(* any, are the caller's to destroy.                                        *)
ContextDestroy(c) ==
    /\ Idle
    /\ ctxs[c].live
    /\ ctxs' = [ ctxs EXCEPT ![c] = DeadContext ]
    /\ res' = [ NoRes EXCEPT !.op = "destroy", !.ctx = c ]
    /\ UNCHANGED <<opts, held, fs>>

OptionKeys == { "STATE_DIRECTORY", "FORCE_STATE", "DEFAULT_DIRECTORY",
                "USE_DEFAULT_DIRECTORY", "unrecognized" }

(* chkconfig_options_set: value is the string of a directory key or the     *)
(* boolean of a switch key; fail tells whether the strdup of a directory    *)
(* key fails.  A directory key frees the old string before duplicating the  *)
(* new one.                                                                 *)
chkconfigOptionsSet(inOptions, inOption, value, fail) ==
    CASE inOption = "STATE_DIRECTORY" ->
           IF fail
           THEN [ status |-> -ENOMEM,
                  options |-> [ inOptions EXCEPT !.m_state_dir = NullDir ] ]
           ELSE [ status |-> CHKCONFIG_STATUS_SUCCESS,
                  options |-> [ inOptions EXCEPT !.m_state_dir = value ] ]
      [] inOption = "FORCE_STATE" ->
           [ status |-> CHKCONFIG_STATUS_SUCCESS,
             options |-> [ inOptions EXCEPT !.m_force_state = value ] ]
      [] inOption = "DEFAULT_DIRECTORY" ->
           IF fail
           THEN [ status |-> -ENOMEM,
                  options |-> [ inOptions EXCEPT !.m_default_dir = NullDir ] ]
           ELSE [ status |-> CHKCONFIG_STATUS_SUCCESS,
                  options |-> [ inOptions EXCEPT !.m_default_dir = value ] ]
      [] inOption = "USE_DEFAULT_DIRECTORY" ->
           [ status |-> CHKCONFIG_STATUS_SUCCESS,
             options |-> [ inOptions EXCEPT !.m_use_default_dir = value ] ]
      [] OTHER ->
           [ status |-> -EINVAL, options |-> inOptions ]

OptionsSet(c, o, inOption, value, fail) ==
    LET r == chkconfigOptionsSet(opts[o], inOption, value, fail) IN
    /\ Idle
    /\ ctxs[c].live
    /\ o \in held
    /\ opts' = [ opts EXCEPT ![o] = r.options ]
    /\ res' = [ NoRes EXCEPT !.op = "options_set", !.ctx = c, !.opt = o,
                             !.status = r.status ]
    /\ UNCHANGED <<ctxs, held, fs>>

(* The values a caller passes for an option key. *)
OptionValues(inOption, dirs) ==
    IF inOption \in { "STATE_DIRECTORY", "DEFAULT_DIRECTORY" } THEN dirs
    ELSE BOOLEAN

----------------------------------------------------------------------------
(* Spec: the observers and mutators of one context, bound to options with  *)
(* the compiled-in directories and any setting of the two switches, over    *)
(* every content of the two directories of at most MaxFiles entries.        *)

Init ==
    /\ ctxs = [ c \in CtxIds |->
                  IF c = 1 THEN [ live |-> TRUE, m_options |-> 1 ]
                  ELSE DeadContext ]
    /\ \E force \in BOOLEAN, use \in BOOLEAN :
         opts = [ o \in OptIds |->
                    IF o = 1
                    THEN LiveOptions(CHKCONFIG_STATEDIR_DEFAULT, force, use,
                                     CHKCONFIG_DEFAULTDIR_DEFAULT)
                    ELSE FreeOptions ]
    /\ held = { 1 }
    /\ \E present \in SUBSET (DirPaths \X FlagNames) :
         /\ Cardinality(present) <= MaxFiles
         /\ \E entry \in [ present -> Entries \ { NoEnt } ] :
              fs = [ d \in DirPaths |->
                       [ n \in FlagNames |->
                           IF <<d, n>> \in present THEN entry[<<d, n>>]
                           ELSE NoEnt ] ]
    /\ res = NoRes

(* The allocation failures of an enumeration. *)
Ooms ==
    { NoOom }
    \cup { Oom("init", g, 0) :
             g \in { CHKCONFIG_ORIGIN_STATE, CHKCONFIG_ORIGIN_DEFAULT,
                     CHKCONFIG_ORIGIN_UNKNOWN } }
    \cup { Oom("strdup", g, k) :
             g \in { CHKCONFIG_ORIGIN_STATE, CHKCONFIG_ORIGIN_DEFAULT,
                     CHKCONFIG_ORIGIN_UNKNOWN },
             k \in 1 .. Cardinality(FlagNames) }

Next ==
    \/ \E c \in LiveContexts, flag \in FlagArguments, state0 \in BOOLEAN :
         StateGetWithOrigin(c, flag, state0)
    \/ \E c \in LiveContexts, oom \in Ooms :
         \E so \in Orders(ContextOptions(c).m_state_dir),
            do \in Orders(ContextOptions(c).m_default_dir) :
           StateGetCount(c, so, do, oom)
    \/ \E c \in LiveContexts, oom \in Ooms :
         \E so \in Orders(ContextOptions(c).m_state_dir),
            do \in Orders(ContextOptions(c).m_default_dir) :
           StateCopyAll(c, so, do, oom)
    \/ \E c \in LiveContexts, flag \in FlagArguments, state \in BOOLEAN :
         StateSet(c, flag, state)
    \/ Return

Spec == Init /\ [][Next]_vars

----------------------------------------------------------------------------
(* SpecLife: the lifetimes of contexts and options, from an empty heap.     *)

EmptyDirs == [ d \in DirPaths |-> [ n \in FlagNames |-> NoEnt ] ]

(* The keys set in SpecLife: a directory key, a switch key and a key that   *)
(* is not recognized.                                                       *)
LifeOptionKeys == { "STATE_DIRECTORY", "FORCE_STATE", "unrecognized" }

InitLife ==
    /\ ctxs = [ c \in CtxIds |-> DeadContext ]
    /\ opts = [ o \in OptIds |-> FreeOptions ]
    /\ held = {}
    /\ fs = EmptyDirs
    /\ res = NoRes

NextLife ==
    \/ \E c \in CtxIds : ContextInit(c)
    \/ \E c \in CtxIds, o \in OptIds,
          fail \in { "none", "state_dir", "default_dir" } :
         OptionsInit(c, o, fail)
    \/ \E c \in CtxIds, o \in OptIds, inOption \in LifeOptionKeys, fail \in BOOLEAN :
         \E value \in OptionValues(inOption, { CHKCONFIG_STATEDIR_DEFAULT }) :
           OptionsSet(c, o, inOption, value, fail)
    \/ \E c \in CtxIds, o \in OptIds \cup { NullRef } : OptionsDestroy(c, o)
    \/ \E c \in CtxIds : ContextDestroy(c)
    \/ Return

SpecLife == InitLife /\ [][NextLife]_vars

----------------------------------------------------------------------------
(* SpecDirs: enumeration when a backing directory may not exist.  Each of   *)
(* the two directories the options name is either absent, so that opendir   *)
(* fails with ENOENT, or holds regular files and sub-directories.           *)

DirsEntries == { NoEnt, RegFile(OnFile), RegFile(OffFile), SubDir }

InitDirs ==
    /\ ctxs = [ c \in CtxIds |->
                  IF c = 1 THEN [ live |-> TRUE, m_options |-> 1 ]
                  ELSE DeadContext ]
    /\ \E use \in BOOLEAN :
         opts = [ o \in OptIds |->
                    IF o = 1
                    THEN LiveOptions(CHKCONFIG_STATEDIR_DEFAULT, FALSE, use,
                                     CHKCONFIG_DEFAULTDIR_DEFAULT)
                    ELSE FreeOptions ]
    /\ held = { 1 }
    /\ \E existing \in SUBSET DirPaths :
         fs \in [ existing -> [ FlagNames -> DirsEntries ] ]
    /\ res = NoRes

NextDirs ==
    \/ \E c \in LiveContexts, oom \in Ooms :
         \E so \in Orders(ContextOptions(c).m_state_dir),
            do \in Orders(ContextOptions(c).m_default_dir) :
           StateGetCount(c, so, do, oom)
    \/ \E c \in LiveContexts, oom \in Ooms :
         \E so \in Orders(ContextOptions(c).m_state_dir),
            do \in Orders(ContextOptions(c).m_default_dir) :
           StateCopyAll(c, so, do, oom)
    \/ Return

SpecDirs == InitDirs /\ [][NextDirs]_vars

----------------------------------------------------------------------------

(* SpecUtility: the utility functions.  They read no context and no         *)
(* filesystem; res holds the arguments of a call before it is made and its  *)
(* arguments and outcome after it.                                          *)

MaxStateStringLen == 4

(* The bytes of the state strings parsed: the letters of "on" and "off" in  *)
(* either case, and a letter of neither.                                    *)
StateStringBytes == { "o", "O", "n", "N", "f", "F", "x" }

StateStrings ==
    UNION { [ 1 .. n -> StateStringBytes ] : n \in 0 .. MaxStateStringLen }

(* The flags compared: the empty name, names that are prefixes of one       *)
(* another and names that differ in their first or second byte.             *)
CompareFlags ==
    { <<>>, <<"a">>, <<"b">>, <<"a", "a">>, <<"a", "b">>, <<"b", "a">> }

CompareTuples ==
    { Tuple(flag, state, CHKCONFIG_ORIGIN_STATE) :
        flag \in CompareFlags, state \in BOOLEAN }

InitUtility ==
    /\ ctxs = [ c \in CtxIds |-> DeadContext ]
    /\ opts = [ o \in OptIds |-> FreeOptions ]
    /\ held = {}
    /\ fs = EmptyDirs
    /\ \/ \E inStateString \in StateStrings \cup { NullFlag }, state0 \in BOOLEAN :
            res = [ NoRes EXCEPT !.string = inStateString, !.state = state0 ]
       \/ \E first \in CompareTuples, second \in CompareTuples,
             third \in CompareTuples :
            res = [ NoRes EXCEPT !.tuples = <<first, second, third>> ]

(* chkconfig_state_string_get_state of the string at hand: one the caller   *)
(* supplied, or the one chkconfig_state_get_state_string returned.          *)
StateStringGetState ==
    LET r == chkconfigStateStringGetState(res.string, res.state) IN
    /\ res.op \in { "none", "state_get_state_string" }
    /\ res.tuples = <<>>
    /\ res' = [ res EXCEPT !.op = "state_string_get_state",
                           !.status = r.status, !.state = r.state ]
    /\ UNCHANGED <<ctxs, opts, held, fs>>

(* chkconfig_state_get_state_string. *)
StateGetStateString(inState) ==
    /\ Idle
    /\ res.string = <<>>
    /\ res.tuples = <<>>
    /\ res' = [ res EXCEPT !.op = "state_get_state_string",
                           !.status = CHKCONFIG_STATUS_SUCCESS,
                           !.state = inState,
                           !.string = chkconfigStateGetStateString(inState) ]
    /\ UNCHANGED <<ctxs, opts, held, fs>>

(* chkconfig_flag_state_tuple_flag_compare_function on every pair of the    *)
(* tuples at hand, as qsort may call it.                                    *)
FlagCompare ==
    /\ Idle
    /\ res.tuples # <<>>
    /\ res' = [ res EXCEPT
                  !.op = "flag_compare",
                  !.order = [ i \in DOMAIN res.tuples |->
                                [ j \in DOMAIN res.tuples |->
                                    chkconfigFlagStateTupleFlagSortFunction(
                                        res.tuples[i], res.tuples[j]) ] ] ]
    /\ UNCHANGED <<ctxs, opts, held, fs>>

(* chkconfig_flag_state_tuple_state_compare_function, likewise. *)
StateCompare ==
    /\ Idle
    /\ res.tuples # <<>>
    /\ res' = [ res EXCEPT
                  !.op = "state_compare",
                  !.order = [ i \in DOMAIN res.tuples |->
                                [ j \in DOMAIN res.tuples |->
                                    chkconfigFlagStateTupleStateSortFunction(
                                        res.tuples[i], res.tuples[j]) ] ] ]
    /\ UNCHANGED <<ctxs, opts, held, fs>>

NextUtility ==
    \/ StateStringGetState
    \/ \E inState \in BOOLEAN : StateGetStateString(inState)
    \/ FlagCompare
    \/ StateCompare

SpecUtility == InitUtility /\ [][NextUtility]_vars

----------------------------------------------------------------------------

(* SpecMultiple: the calls that take an array of tuples, and set_state,     *)
(* over state directories that hold well-formed and malformed files and     *)
(* default directories that hold well-formed ones.                          *)

MultipleStateEntries ==
    { NoEnt, RegFile(OnFile), RegFile(OffFile), RegFile(BadFile) }

MultipleDefaultEntries == { NoEnt, RegFile(OnFile) }

InitMultiple ==
    /\ ctxs = [ c \in CtxIds |->
                  IF c = 1 THEN [ live |-> TRUE, m_options |-> 1 ]
                  ELSE DeadContext ]
    /\ \E force \in BOOLEAN, use \in BOOLEAN :
         opts = [ o \in OptIds |->
                    IF o = 1
                    THEN LiveOptions(CHKCONFIG_STATEDIR_DEFAULT, force, use,
                                     CHKCONFIG_DEFAULTDIR_DEFAULT)
                    ELSE FreeOptions ]
    /\ held = { 1 }
    /\ \E state \in [ FlagNames -> MultipleStateEntries ],
          default \in [ FlagNames -> MultipleDefaultEntries ] :
         fs = [ d \in DirPaths |->
                  IF d = CHKCONFIG_STATEDIR_DEFAULT THEN state ELSE default ]
    /\ FileCount(fs) <= MaxFiles
    /\ res = NoRes

(* The tuples a caller passes: a flag, among them the empty one, any state  *)
(* and the origin of a tuple not looked up yet.                             *)
GivenTuples ==
    { Tuple(flag, state, CHKCONFIG_ORIGIN_UNKNOWN) :
        flag \in FlagNames \cup { <<>> }, state \in BOOLEAN }

(* The arrays a caller passes: none, one, two or three tuples. *)
GivenArrays ==
    { <<>> }
    \cup { <<first>> : first \in GivenTuples }
    \cup { <<first, second>> : first \in GivenTuples, second \in GivenTuples }
    \cup { <<first, second, third>> :
             first \in GivenTuples, second \in GivenTuples,
             third \in GivenTuples }

(* chkconfig_state_get_multiple of a null array. *)
StateGetMultipleOfNull(c) ==
    /\ Idle
    /\ res' = [ NoRes EXCEPT !.op = "get_multiple", !.ctx = c, !.null = TRUE,
                             !.status = -EINVAL ]
    /\ UNCHANGED <<ctxs, opts, held, fs>>

(* chkconfig_state_get_multiple: given is the array as passed and tuples    *)
(* the array when the call returns.                                         *)
MultipleOutcome(c, inFlagStateTuples, r) ==
    [ NoRes EXCEPT !.op = "get_multiple", !.ctx = c,
                   !.given = inFlagStateTuples, !.count = Len(inFlagStateTuples),
                   !.status = r.status, !.tuples = r.tuples ]

StateGetMultiple(c, inFlagStateTuples) ==
    /\ Idle
    /\ res' = MultipleOutcome(
                  c, inFlagStateTuples,
                  chkconfigStateGetMultiple(ContextOptions(c), inFlagStateTuples,
                                            1, CHKCONFIG_STATUS_SUCCESS))
    /\ UNCHANGED <<ctxs, opts, held, fs>>

(* chkconfig_state_set_multiple of a null array. *)
StateSetMultipleOfNull(c) ==
    /\ Idle
    /\ res' = [ NoRes EXCEPT !.op = "set_multiple", !.ctx = c, !.null = TRUE,
                             !.status = -EINVAL ]
    /\ UNCHANGED <<ctxs, opts, held, fs>>

(* chkconfig_state_set_multiple.  As with set_state, a call that would      *)
(* leave more than MaxFiles entries is not taken.                           *)
StateSetMultipleDone(c, inFlagStateTuples, r) ==
    /\ Idle
    /\ FileCount(r.fs) <= MaxFiles
    /\ fs' = r.fs
    /\ res' = [ NoRes EXCEPT !.op = "set_multiple", !.ctx = c,
                             !.given = inFlagStateTuples,
                             !.count = Len(inFlagStateTuples),
                             !.status = r.status ]
    /\ UNCHANGED <<ctxs, opts, held>>

StateSetMultiple(c, inFlagStateTuples) ==
    StateSetMultipleDone(
        c, inFlagStateTuples,
        chkconfigStateSetMultiple(fs, ContextOptions(c), inFlagStateTuples,
                                  1, CHKCONFIG_STATUS_SUCCESS))

NextMultiple ==
    \/ \E c \in LiveContexts : StateGetMultipleOfNull(c)
    \/ \E c \in LiveContexts, inFlagStateTuples \in GivenArrays :
         StateGetMultiple(c, inFlagStateTuples)
    \/ \E c \in LiveContexts : StateSetMultipleOfNull(c)
    \/ \E c \in LiveContexts, inFlagStateTuples \in GivenArrays :
         StateSetMultiple(c, inFlagStateTuples)
    \/ \E c \in LiveContexts, flag \in FlagArguments, state \in BOOLEAN :
         StateSet(c, flag, state)
    \/ Return

SpecMultiple == InitMultiple /\ [][NextMultiple]_vars

----------------------------------------------------------------------------

(* SpecTuples: the lifetime of a tuple array the caller owns.  res.tuples   *)
(* is the array the caller's pointer refers to, res.null tells that the     *)
(* pointer is null and res.heap counts the blocks allocated: the array      *)
(* and the flags of its tuples.                                             *)

(* The tuples of an array a caller owns: ones without a flag, as the        *)
(* zeroed ones of a new array, and ones whose flag was allocated, as those  *)
(* copy_all returns.                                                        *)
OwnedTuples ==
    { Tuple(flag, state, origin) :
        flag \in FlagNames \cup { NullFlag }, state \in BOOLEAN,
        origin \in { CHKCONFIG_ORIGIN_UNKNOWN, CHKCONFIG_ORIGIN_STATE } }

InitTuples ==
    /\ ctxs = [ c \in CtxIds |-> DeadContext ]
    /\ opts = [ o \in OptIds |-> FreeOptions ]
    /\ held = {}
    /\ fs = EmptyDirs
    /\ \/ res = [ NoRes EXCEPT !.null = TRUE ]
       \/ \E n \in 1 .. MaxTuples :
            \E array \in [ 1 .. n -> OwnedTuples ] :
              res = [ NoRes EXCEPT !.tuples = array, !.heap = Blocks(array) ]

(* chkconfigFlagStateTuplesInit: the status and the zeroed array, the       *)
(* empty sequence where none is allocated.                                  *)
chkconfigFlagStateTuplesInit(inFlagStateTupleCount, fail) ==
    IF ~(inFlagStateTupleCount > 0)
    THEN [ status |-> -EINVAL, tuples |-> <<>> ]
    ELSE IF fail
    THEN [ status |-> -ENOMEM, tuples |-> <<>> ]
    ELSE [ status |-> CHKCONFIG_STATUS_SUCCESS,
           tuples |-> [ i \in 1 .. inFlagStateTupleCount |-> ZeroTuple ] ]

(* chkconfig_flag_state_tuples_init into a pointer that is null.  The       *)
(* pointer is written on success only.                                      *)
TuplesInitDone(count, r) ==
    /\ res.null
    /\ res' = [ res EXCEPT !.op = "tuples_init", !.count = count,
                           !.status = r.status,
                           !.tuples = r.tuples,
                           !.null = Failed(r.status),
                           !.heap = res.heap + Blocks(r.tuples) ]
    /\ UNCHANGED <<ctxs, opts, held, fs>>

TuplesInit(count, fail) ==
    TuplesInitDone(count, chkconfigFlagStateTuplesInit(count, fail))

(* chkconfig_flag_state_tuples_destroy of the caller's array with a count   *)
(* no larger than the array.  A null array is rejected; otherwise the       *)
(* flags of the first count tuples and the array are released, whatever     *)
(* the count, and the call succeeds.                                        *)
TuplesDestroy(count) ==
    /\ count <= Len(res.tuples)
    /\ res' = IF res.null
              THEN [ res EXCEPT !.op = "tuples_destroy", !.count = count,
                                !.status = -EINVAL ]
              ELSE [ res EXCEPT
                       !.op = "tuples_destroy", !.count = count,
                       !.status = CHKCONFIG_STATUS_SUCCESS,
                       !.tuples = <<>>,
                       !.null = TRUE,
                       !.heap = res.heap
                                - chkconfigFlagStateTuplesDestroy(res.tuples, count) ]
    /\ UNCHANGED <<ctxs, opts, held, fs>>

NextTuples ==
    \/ \E count \in 0 .. MaxTuples, fail \in BOOLEAN : TuplesInit(count, fail)
    \/ \E count \in 0 .. MaxTuples : TuplesDestroy(count)

SpecTuples == InitTuples /\ [][NextTuples]_vars

----------------------------------------------------------------------------

(* SpecRace: chkconfig_state_copy_all of a context without fallback, taken  *)
(* in its two passes over the state directory, with an external writer      *)
(* that adds and removes flag files in between.                             *)

InitRace ==
    /\ Init
    /\ ~ContextOptions(1).m_use_default_dir

(* The counting pass.  A pass that fails ends the call; otherwise res holds *)
(* the count on which the populating pass will go on.                       *)
CopyAllCounting(c, cnt) ==
    res' = IF Failed(cnt.status)
           THEN CopyOutcome(c, chkconfigStateCopyAllCounted(
                                   CHKCONFIG_ORIGIN_STATE,
                                   ContextOptions(c).m_state_dir, <<>>, NoOom,
                                   cnt))
           ELSE [ NoRes EXCEPT !.op = "copy_all_counted", !.ctx = c,
                               !.count = cnt.count ]

StateCopyAllCountingPass(c, stateOrder) ==
    /\ Idle
    /\ CopyAllCounting(c, chkconfigStateGetCountPath(
                              ContextOptions(c).m_state_dir, stateOrder))
    /\ UNCHANGED <<ctxs, opts, held, fs>>

(* Another process creates, rewrites or removes a flag file of the state    *)
(* directory between the two passes.                                        *)
ExternalWriter(name, entry) ==
    /\ res.op = "copy_all_counted"
    /\ fs[ContextOptions(res.ctx).m_state_dir][name] # entry
    /\ fs' = [ fs EXCEPT ![ContextOptions(res.ctx).m_state_dir][name] = entry ]
    /\ FileCount(fs') <= MaxFiles
    /\ UNCHANGED <<ctxs, opts, held, res>>

(* The populating pass: the array of the counted size is allocated and      *)
(* filled from the directory as it is now.                                  *)
StateCopyAllPopulatingPass(stateOrder, oom) ==
    /\ res.op = "copy_all_counted"
    /\ res' = CopyOutcome(res.ctx,
                          chkconfigStateCopyAllCounted(
                              CHKCONFIG_ORIGIN_STATE,
                              ContextOptions(res.ctx).m_state_dir, stateOrder,
                              oom,
                              [ status |-> CHKCONFIG_STATUS_SUCCESS,
                                count  |-> res.count ]))
    /\ UNCHANGED <<ctxs, opts, held, fs>>

NextRace ==
    \/ \E c \in LiveContexts :
         \E so \in Orders(ContextOptions(c).m_state_dir) :
           StateCopyAllCountingPass(c, so)
    \/ \E name \in FlagNames,
          entry \in { NoEnt, RegFile(OnFile), RegFile(OffFile) } :
         ExternalWriter(name, entry)
    \/ /\ res.op = "copy_all_counted"
       /\ \E oom \in Ooms :
            \E so \in Orders(ContextOptions(res.ctx).m_state_dir) :
              StateCopyAllPopulatingPass(so, oom)
    \/ res.op = "copy_all" /\ Return

SpecRace == InitRace /\ [][NextRace]_vars

(* SpecCli: the chkconfig command invoked with one flag argument: the       *)
(* check usage.  A run makes its own context and options, looks the flag    *)
(* up, destroys both and exits; res holds the flags of the command line,    *)
(* the flag argument, the status of Main, sState, whether the context       *)
(* pointer stayed null, and the exit status.                                *)

EXIT_SUCCESS == 0
EXIT_FAILURE == 1

(* The command-line options of the check usage that bear on the lookup. *)
kChkconfigOptFlagUseDefaultDirectory == "use-default-directory"
kChkconfigOptFlagForce == "force"

(* Init of the command: the options the library is given, unless the        *)
(* allocation of chkconfig_init fails and leaves the context pointer null.  *)
CliInit(inOptFlags, fail) ==
    IF fail
    THEN [ status |-> -ENOMEM, options |-> sChkconfigOptionsDefault ]
    ELSE [ status  |-> CHKCONFIG_STATUS_SUCCESS,
           options |-> [ m_state_dir       |-> CHKCONFIG_STATEDIR_DEFAULT,
                         m_force_state     |-> kChkconfigOptFlagForce \in inOptFlags,
                         m_use_default_dir |-> kChkconfigOptFlagUseDefaultDirectory
                                                 \in inOptFlags,
                         m_default_dir     |-> CHKCONFIG_DEFAULTDIR_DEFAULT ] ]

(* The status of the check, given the outcome r of chkconfig_state_get      *)
(* into sState.                                                             *)
SetOrGetOneFlagGot(r) ==
    [ status |-> IF r.status >= CHKCONFIG_STATUS_SUCCESS
                 THEN IF r.state THEN CHKCONFIG_STATUS_SUCCESS ELSE -ENOENT
                 ELSE r.status,
      state  |-> r.state ]

(* SetOrGetOneFlag, were the status of chkconfig_state_get returned as it   *)
(* is.                                                                     *)
SetOrGetOneFlagReturningStatus(options, inFlag, inState) ==
    [ status |-> chkconfigStateGet(options, inFlag, inState,
                                   CHKCONFIG_ORIGIN_UNKNOWN).status,
      state  |-> chkconfigStateGet(options, inFlag, inState,
                                   CHKCONFIG_ORIGIN_UNKNOWN).state ]

(* SetOrGetOneFlag without a state argument. *)
SetOrGetOneFlag(options, inFlag, inState) ==
    SetOrGetOneFlagGot(chkconfigStateGet(options, inFlag, inState,
                                         CHKCONFIG_ORIGIN_UNKNOWN))

(* Main: sState is false when the command starts. *)
CliMain(i, inFlag) ==
    IF Failed(i.status) THEN [ status |-> i.status, state |-> FALSE ]
    ELSE SetOrGetOneFlag(i.options, inFlag, FALSE)

CliExit(inOptFlags, inFlag, r) ==
    [ NoRes EXCEPT !.op = "check", !.optflags = inOptFlags, !.flag = inFlag,
                   !.status = r.status, !.state = r.state,
                   !.null = (r.status = -ENOMEM),
                   !.exit = IF r.status >= CHKCONFIG_STATUS_SUCCESS
                            THEN EXIT_SUCCESS ELSE EXIT_FAILURE ]

Check(inOptFlags, inFlag, fail) ==
    /\ Idle
    /\ res' = CliExit(inOptFlags, inFlag,
                      CliMain(CliInit(inOptFlags, fail), inFlag))
    /\ UNCHANGED <<ctxs, opts, held, fs>>

InitCli ==
    /\ ctxs = [ c \in CtxIds |-> DeadContext ]
    /\ opts = [ o \in OptIds |-> FreeOptions ]
    /\ held = {}
    /\ \E present \in SUBSET (DirPaths \X FlagNames) :
         /\ Cardinality(present) <= MaxFiles
         /\ \E entry \in [ present -> Entries \ { NoEnt } ] :
              fs = [ d \in DirPaths |->
                       [ n \in FlagNames |->
                           IF <<d, n>> \in present THEN entry[<<d, n>>]
                           ELSE NoEnt ] ]
    /\ res = NoRes

NextCli ==
    \/ \E inOptFlags \in SUBSET { kChkconfigOptFlagUseDefaultDirectory,
                                  kChkconfigOptFlagForce },
          inFlag \in FlagNames \cup { <<>> }, fail \in BOOLEAN :
         Check(inOptFlags, inFlag, fail)
    \/ Return

SpecCli == InitCli /\ [][NextCli]_vars

----------------------------------------------------------------------------

(* Properties of get_state.  In a state where get_state has returned, res   *)
(* holds its outcome and fs is the filesystem it read.                      *)

GetReturned == res.op = "get_state"

CallOptions == ContextOptions(res.ctx)

FallbackEnabled == CallOptions.m_use_default_dir

StateFile(flag) == Lookup([ dir |-> CallOptions.m_state_dir, name |-> flag ])

DefaultFile(flag) == Lookup([ dir |-> CallOptions.m_default_dir, name |-> flag ])

Missing(e) == e.type = "none"

(* A readable regular file that holds "on\n", "off\n" or nothing. *)
WellFormed(e) ==
    /\ e.type = "reg"
    /\ e.readable
    /\ e.data \in { OnFile, OffFile, EmptyFile }

ValueOf(e) == e.data = OnFile

(* C1: with fallback enabled, get_state of a flag with a readable,          *)
(* well-formed file in the state directory succeeds with the value of that  *)
(* file and origin State, whatever the default directory holds.             *)
C1_StateDirectoryWins ==
    (GetReturned /\ FallbackEnabled /\ WellFormed(StateFile(res.flag)))
    => /\ res.status = CHKCONFIG_STATUS_SUCCESS
       /\ res.state  = ValueOf(StateFile(res.flag))
       /\ res.origin = CHKCONFIG_ORIGIN_STATE

C1_Witness ==
    /\ GetReturned
    /\ FallbackEnabled
    /\ StateFile(res.flag) = RegFile(OnFile)
    /\ DefaultFile(res.flag) = RegFile(OffFile)
    /\ res.state = TRUE
    /\ res.origin = CHKCONFIG_ORIGIN_STATE

(* C2: get_state of a flag with no file in the state directory and a        *)
(* well-formed file in the default directory succeeds; with fallback        *)
(* enabled it yields the value of the default file and origin Default,      *)
(* with fallback disabled it yields false and origin None.                  *)
C2_DefaultConsultedIffFallback ==
    (GetReturned /\ Missing(StateFile(res.flag))
                 /\ WellFormed(DefaultFile(res.flag)))
    => /\ res.status = CHKCONFIG_STATUS_SUCCESS
       /\ IF FallbackEnabled
          THEN /\ res.state  = ValueOf(DefaultFile(res.flag))
               /\ res.origin = CHKCONFIG_ORIGIN_DEFAULT
          ELSE /\ res.state  = FALSE
               /\ res.origin = CHKCONFIG_ORIGIN_NONE

C2_Witness ==
    /\ GetReturned
    /\ FallbackEnabled
    /\ Missing(StateFile(res.flag))
    /\ DefaultFile(res.flag) = RegFile(OnFile)
    /\ res.state = TRUE
    /\ res.origin = CHKCONFIG_ORIGIN_DEFAULT

C4_MissingEverywhereIsNotFound ==
    (GetReturned /\ FallbackEnabled
                 /\ res.flag \in FlagNames
                 /\ Missing(StateFile(res.flag))
                 /\ Missing(DefaultFile(res.flag)))
    => /\ res.status = -ENOENT
       /\ res.state  = FALSE
       /\ res.origin = CHKCONFIG_ORIGIN_NONE

(* What reading an entry that is there fails with, if it fails. *)
ReadFails(e) == ~Missing(e) /\ (~e.readable \/ e.type = "dir")

ReadError(e) == IF ~e.readable THEN -EACCES ELSE -ENODEV

(* C5: when reading the state-directory file of a flag fails for a reason   *)
(* other than the file being missing, get_state returns that error and      *)
(* nothing from the default directory, in both modes.                       *)
C5_ReadErrorIsTerminal ==
    (GetReturned /\ ReadFails(StateFile(res.flag)))
    => /\ res.status = ReadError(StateFile(res.flag))
       /\ res.origin # CHKCONFIG_ORIGIN_DEFAULT

----------------------------------------------------------------------------
(* Properties of get_count and copy_all.  In a state where one of them has  *)
(* returned, res holds its outcome and fs is the filesystem it read.        *)

CountReturned == res.op = "get_count"

CopyReturned == res.op = "copy_all"

Succeeded == res.status = CHKCONFIG_STATUS_SUCCESS

(* The names of the regular files of a directory. *)
RegNames(d) ==
    { n \in FlagNames : Lookup([ dir |-> d, name |-> n ]).type = "reg" }

StateNames == RegNames(CallOptions.m_state_dir)

DefaultNames == RegNames(CallOptions.m_default_dir)

ReturnedFlags == { res.tuples[i].m_flag : i \in DOMAIN res.tuples }

(* C6: with fallback enabled, a successful copy_all returns one tuple per   *)
(* name that is a regular file in the state or in the default directory,    *)
(* in ascending order of flag, no flag twice; a flag of the state           *)
(* directory carries the state file's value and origin State, a flag of     *)
(* the default directory only carries the default file's value and origin   *)
(* Default.                                                                 *)
C6_UnionOfBothDirectories ==
    (CopyReturned /\ FallbackEnabled /\ Succeeded)
    => /\ ReturnedFlags = StateNames \cup DefaultNames
       /\ Len(res.tuples) = Cardinality(StateNames \cup DefaultNames)
       /\ \A i, j \in DOMAIN res.tuples :
            i < j => strcmp(res.tuples[i].m_flag, res.tuples[j].m_flag) < 0
       /\ \A i \in DOMAIN res.tuples :
            IF res.tuples[i].m_flag \in StateNames
            THEN /\ res.tuples[i].m_origin = CHKCONFIG_ORIGIN_STATE
                 /\ res.tuples[i].m_state
                      = ValueOf(StateFile(res.tuples[i].m_flag))
            ELSE /\ res.tuples[i].m_origin = CHKCONFIG_ORIGIN_DEFAULT
                 /\ res.tuples[i].m_state
                      = ValueOf(DefaultFile(res.tuples[i].m_flag))

(* C7: a successful get_count returns, with fallback enabled, the number    *)
(* of names that are regular files in the state or the default directory,   *)
(* a name of both counted once; with fallback disabled, the number of       *)
(* regular files of the state directory.                                    *)
C7_CountOfUnion ==
    (CountReturned /\ Succeeded)
    => res.count = IF FallbackEnabled
                   THEN Cardinality(StateNames \cup DefaultNames)
                   ELSE Cardinality(StateNames)

C7_Witness ==
    /\ CountReturned
    /\ Succeeded
    /\ FallbackEnabled
    /\ StateNames = { <<"a">> }
    /\ DefaultNames = { <<"a">>, <<"a", "b">> }
    /\ res.count = 2

(* What copy_all returns in the current state, for the orders in which the  *)
(* two directories are read and the allocation that fails.                  *)
CopyAllNow(stateOrder, defaultOrder, oom) ==
    chkconfigStateCopyAll(CallOptions, stateOrder, defaultOrder, oom)

StateOrders == Orders(CallOptions.m_state_dir)

DefaultOrders == Orders(CallOptions.m_default_dir)

(* C8 as claimed: whenever get_count succeeds with count n, copy_all on     *)
(* the same context and filesystem succeeds and returns n tuples.           *)
C8_CopyAllSucceedsWithCount ==
    (CountReturned /\ Succeeded)
    => \A so \in StateOrders, do \in DefaultOrders :
         /\ CopyAllNow(so, do, NoOom).status = CHKCONFIG_STATUS_SUCCESS
         /\ Len(CopyAllNow(so, do, NoOom).tuples) = res.count

(* C8 as amended: whenever get_count succeeds with count n, a copy_all on   *)
(* the same context and filesystem that succeeds returns n tuples and a     *)
(* count of n; and it does succeed when fallback is enabled and none of     *)
(* its allocations fails.                                                   *)
C8_CountAgreesWithCopyAll ==
    (CountReturned /\ Succeeded)
    => \A so \in StateOrders, do \in DefaultOrders :
         /\ \A oom \in Ooms :
              CopyAllNow(so, do, oom).status = CHKCONFIG_STATUS_SUCCESS
              => /\ Len(CopyAllNow(so, do, oom).tuples) = res.count
                 /\ CopyAllNow(so, do, oom).count = res.count
         /\ FallbackEnabled
            => CopyAllNow(so, do, NoOom).status = CHKCONFIG_STATUS_SUCCESS

C8_Witness ==
    /\ CountReturned
    /\ Succeeded
    /\ ~FallbackEnabled
    /\ res.count = 2
    /\ \E so \in StateOrders, do \in DefaultOrders :
         /\ CopyAllNow(so, do, NoOom).status = CHKCONFIG_STATUS_SUCCESS
         /\ Len(CopyAllNow(so, do, NoOom).tuples) = 2

----------------------------------------------------------------------------
(* Properties of set_state: of the step from the state it is called in to   *)
(* the state it returns in.                                                 *)

StateFileContent(inState) == IF inState THEN OnFile ELSE OffFile

----------------------------------------------------------------------------
(* Properties of the lifetimes of contexts and options (SpecLife).          *)

(* The options reference of a context is not null and designates the        *)
(* default options or options that have not been destroyed.                 *)
ValidReference(c) ==
    /\ ctxs[c].m_options # NullRef
    /\ \/ ctxs[c].m_options = DefaultRef
       \/ opts[ctxs[c].m_options].live

AllReferencesValid == \A c \in LiveContexts : ValidReference(c)

(* C10 as claimed: after any sequence of lifetime calls the options         *)
(* reference of every live context is valid.                                *)
C10_ReferenceNeverDangles == AllReferencesValid

(* A destroy-options call made through a context while another live         *)
(* context references the options destroyed.                                *)
ForeignDestroy ==
    /\ res'.op = "options_destroy"
    /\ res'.opt # NullRef
    /\ \E c \in LiveContexts \ { res'.ctx } : ctxs[c].m_options = res'.opt

(* C10 as amended: no call other than a destroy-options made through a      *)
(* context other than the one that references the options makes the         *)
(* options reference of a live context invalid.                             *)
C10_ReferenceValidUnlessForeignDestroy ==
    [][ (AllReferencesValid /\ ~ForeignDestroy) => AllReferencesValid' ]_vars

C10_Witness ==
    /\ res.op = "options_destroy"
    /\ res.status = CHKCONFIG_STATUS_SUCCESS
    /\ ctxs[res.ctx].live
    /\ ctxs[res.ctx].m_options = DefaultRef
    /\ \E c \in LiveContexts \ { res.ctx } :
         /\ ctxs[c].m_options \in OptIds
         /\ opts[ctxs[c].m_options].live
    /\ AllReferencesValid

(* C11: a successful create-options makes new options, holding the default  *)
(* paths with force-state and fallback off, the options of the context; a   *)
(* destroy-options of the options the context references rebinds it to the  *)
(* default options, other options being live or not; a destroy-options of   *)
(* options the context does not reference leaves its binding as it was.     *)
C11_CreateBindsDestroyRebinds ==
    [][ /\ (res'.op = "options_init"
            /\ res'.status = CHKCONFIG_STATUS_SUCCESS)
           => /\ ~opts[res'.opt].live
              /\ opts'[res'.opt]
                   = LiveOptions(CHKCONFIG_STATEDIR_DEFAULT, FALSE, FALSE,
                                 CHKCONFIG_DEFAULTDIR_DEFAULT)
              /\ ctxs'[res'.ctx].m_options = res'.opt
        /\ (res'.op = "options_destroy"
            /\ res'.status = CHKCONFIG_STATUS_SUCCESS)
           => ctxs'[res'.ctx].m_options
                = IF ctxs[res'.ctx].m_options = res'.opt
                  THEN DefaultRef
                  ELSE ctxs[res'.ctx].m_options
      ]_vars

(* A destroy-options has rebound the only live context to the default       *)
(* options while other options are still live.                              *)
C11_Witness ==
    /\ res.op = "options_destroy"
    /\ res.status = CHKCONFIG_STATUS_SUCCESS
    /\ LiveContexts = { res.ctx }
    /\ ctxs[res.ctx].m_options = DefaultRef
    /\ held # {}
    /\ \A o \in held : opts[o].live

(* C12: every tuple of a successful copy_all has a flag that is not null    *)
(* and origin State or Default, and a successful get_state_with_origin      *)
(* reports origin None, Default or State.                                   *)
C12_NoNullFlagNoUnknownOrigin ==
    /\ (CopyReturned /\ Succeeded)
       => \A i \in DOMAIN res.tuples :
            /\ res.tuples[i].m_flag # NullFlag
            /\ res.tuples[i].m_origin \in { CHKCONFIG_ORIGIN_STATE,
                                            CHKCONFIG_ORIGIN_DEFAULT }
    /\ (GetReturned /\ Succeeded)
       => res.origin \in { CHKCONFIG_ORIGIN_NONE, CHKCONFIG_ORIGIN_DEFAULT,
                           CHKCONFIG_ORIGIN_STATE }

(* The names of the regular files of the directories an enumeration reads. *)
EnumeratedNames ==
    IF FallbackEnabled THEN StateNames \cup DefaultNames ELSE StateNames

(* C13: a successful get_count counts, and a successful copy_all returns,   *)
(* no entry that is not a regular file: the count is the number of regular  *)
(* files of the enumerated directories, sub-directories, "." and ".." left  *)
(* out, and every tuple that names an entry names one of those regular      *)
(* files; with fallback disabled a successful copy_all returns one tuple    *)
(* per regular file of the state directory, with origin State and the       *)
(* state its content parses to.                                             *)
C13_RegularFilesOnly ==
    /\ (CountReturned /\ Succeeded)
       => res.count = Cardinality(EnumeratedNames)
    /\ (CopyReturned /\ Succeeded)
       => /\ res.count = Cardinality(EnumeratedNames)
          /\ Len(res.tuples) = res.count
          /\ \A i \in DOMAIN res.tuples :
               \/ res.tuples[i].m_flag = NullFlag
               \/ /\ res.tuples[i].m_flag \in EnumeratedNames
                  /\ res.tuples[i].m_flag \notin { Dot, DotDot }
    /\ (CopyReturned /\ Succeeded /\ ~FallbackEnabled)
       => /\ ReturnedFlags = StateNames
          /\ Len(res.tuples) = Cardinality(StateNames)
          /\ \A i \in DOMAIN res.tuples :
               /\ res.tuples[i].m_origin = CHKCONFIG_ORIGIN_STATE
               /\ res.tuples[i].m_state
                    = ValueOf(StateFile(res.tuples[i].m_flag))

(* A copy_all without fallback has returned the one regular file of a       *)
(* state directory that holds a sub-directory as well.                      *)
C13_Witness ==
    /\ CopyReturned
    /\ Succeeded
    /\ ~FallbackEnabled
    /\ StateNames = { <<"a", "b">> }
    /\ StateFile(<<"a">>) = SubDir
    /\ Len(res.tuples) = 1
    /\ res.tuples[1] = Tuple(<<"a", "b">>, TRUE, CHKCONFIG_ORIGIN_STATE)

(* s begins with p, letter case ignored. *)
BeginsWith(s, p) ==
    /\ Len(s) >= Len(p)
    /\ \A i \in 1 .. Len(p) : ToLower(s[i]) = ToLower(p[i])

(* A readable regular file whose content is non-empty and begins with       *)
(* neither "on" nor "off".                                                  *)
Malformed(e) ==
    /\ e.type = "reg"
    /\ e.readable
    /\ e.data # EmptyFile
    /\ ~BeginsWith(e.data, sOnStateString)
    /\ ~BeginsWith(e.data, sOffStateString)

(* A readable regular file of length zero. *)
ZeroLength(e) == e.type = "reg" /\ e.readable /\ e.data = EmptyFile

(* The file get_state answers from: the state-directory file of the flag,   *)
(* or the default-directory one when that is missing and fallback is on.    *)
BackingOrigin ==
    IF Missing(StateFile(res.flag)) /\ FallbackEnabled
    THEN CHKCONFIG_ORIGIN_DEFAULT
    ELSE CHKCONFIG_ORIGIN_STATE

BackingFile ==
    IF BackingOrigin = CHKCONFIG_ORIGIN_DEFAULT
    THEN DefaultFile(res.flag)
    ELSE StateFile(res.flag)

(* C14: get_state of a flag whose backing file is non-empty and begins with *)
(* neither "on" nor "off" returns -EINVAL, with fallback enabled as well as *)
(* disabled; a zero-length backing file gives success, false and the origin *)
(* of the directory it is in.                                               *)
C14_MalformedIsInvalidArgument ==
    (GetReturned /\ res.flag \in FlagNames)
    => /\ Malformed(BackingFile) => res.status = -EINVAL
       /\ ZeroLength(BackingFile)
          => /\ Succeeded
             /\ res.state = FALSE
             /\ res.origin = BackingOrigin

(* A directory an enumeration of the call must open cannot be opened. *)
StateDirectoryAbsent == ~DirExists(CallOptions.m_state_dir)

DefaultDirectoryAbsent == ~DirExists(CallOptions.m_default_dir)

EnumeratedDirectoryAbsent ==
    \/ StateDirectoryAbsent
    \/ FallbackEnabled /\ DefaultDirectoryAbsent

(* C15: get_count and copy_all fail with a negated error code when they     *)
(* cannot open a directory they enumerate, the state directory in either    *)
(* mode and either directory with fallback enabled, and then return no      *)
(* count and no tuple, of the other directory either.                       *)
C15_UnopenableDirectoryFails ==
    ((CountReturned \/ CopyReturned) /\ EnumeratedDirectoryAbsent)
    => /\ Failed(res.status)
       /\ res.count = 0
       /\ res.tuples = <<>>

(* copy_all with fallback has failed on an absent state directory after     *)
(* the default directory, which holds a regular file, was copied.           *)
C15_Witness ==
    /\ CopyReturned
    /\ FallbackEnabled
    /\ StateDirectoryAbsent
    /\ ~DefaultDirectoryAbsent
    /\ DefaultNames # {}
    /\ res.status = -ENOENT
    /\ res.tuples = <<>>

(* C16: when copy_all fails, after part of its result was built as well,    *)
(* every tuple array and flag string the call allocated has been released   *)
(* when it returns, and the caller is handed no array and no count.         *)
C16_FailedCopyAllReleasesAll ==
    (CopyReturned /\ Failed(res.status))
    => /\ res.heap = 0
       /\ res.tuples = <<>>
       /\ res.count = 0

(* copy_all with fallback has failed on a malformed file of the state       *)
(* directory, after the array of the default directory was built and a      *)
(* tuple of the state directory was filled.                                 *)
C16_Witness ==
    /\ CopyReturned
    /\ FallbackEnabled
    /\ DefaultNames = { <<"a">> }
    /\ WellFormed(DefaultFile(<<"a">>))
    /\ WellFormed(StateFile(<<"a">>))
    /\ Malformed(StateFile(<<"a", "b">>))
    /\ res.status = -EINVAL
    /\ res.heap = 0
    /\ res.tuples = <<>>

(* C17: directories without a regular file are not an error: when the       *)
(* directories an enumeration reads exist and hold no regular file,         *)
(* get_count succeeds with 0 and copy_all succeeds with a count of 0 and    *)
(* no tuple.                                                                *)
C17_EmptyDirectoriesSucceed ==
    ( /\ CountReturned \/ CopyReturned
      /\ ~EnumeratedDirectoryAbsent
      /\ EnumeratedNames = {} )
    => /\ Succeeded
       /\ res.count = 0
       /\ res.tuples = <<>>

(* copy_all with fallback has succeeded on two directories of which one     *)
(* holds nothing and the other a sub-directory only.                        *)
C17_Witness ==
    /\ CopyReturned
    /\ FallbackEnabled
    /\ PresentIn(fs, CallOptions.m_state_dir) = { <<"a">> }
    /\ StateFile(<<"a">>) = SubDir
    /\ PresentIn(fs, CallOptions.m_default_dir) = {}
    /\ Succeeded
    /\ res.count = 0
    /\ res.tuples = <<>>

(* C18: get_state, get_state_with_origin and set_state of a null or an      *)
(* empty flag return -EINVAL without any access to the filesystem: the      *)
(* directories are as they were, and no read has written the caller's       *)
(* origin.                                                                  *)
C18_NullOrEmptyFlagIsInvalid ==
    [][ ( /\ res'.op \in { "get_state", "set_state" }
          /\ res'.flag \in { <<>>, NullFlag } )
        => /\ res'.status = -EINVAL
           /\ fs' = fs
           /\ res'.origin = CHKCONFIG_ORIGIN_UNKNOWN
      ]_vars

(* set_state of a null flag has returned, with force-state on. *)
C18_Witness ==
    /\ res.op = "set_state"
    /\ res.flag = NullFlag
    /\ CallOptions.m_force_state
    /\ res.status = -EINVAL

(* C19: state-string parsing is a case-insensitive prefix match: a string   *)
(* that begins with "on" parses to true, one that begins with "off" to      *)
(* false, and every other string is rejected with -EINVAL; so parsing the   *)
(* string produced for a state gives that state back.                       *)
C19_ParseIsPrefixMatch ==
    [][ res'.op = "state_string_get_state"
        => /\ BeginsWith(res'.string, sOnStateString)
              => /\ res'.status = CHKCONFIG_STATUS_SUCCESS
                 /\ res'.state = TRUE
           /\ BeginsWith(res'.string, sOffStateString)
              => /\ res'.status = CHKCONFIG_STATUS_SUCCESS
                 /\ res'.state = FALSE
           /\ ( /\ ~BeginsWith(res'.string, sOnStateString)
                /\ ~BeginsWith(res'.string, sOffStateString) )
              => res'.status = -EINVAL
           /\ res.op = "state_get_state_string"
              => /\ res'.status = CHKCONFIG_STATUS_SUCCESS
                 /\ res'.state = res.state
      ]_vars

(* "ONNO" was parsed to true over a caller's false. *)
C19_Witness ==
    /\ res.op = "state_string_get_state"
    /\ res.string = <<"O", "N", "N", "O">>
    /\ res.status = CHKCONFIG_STATUS_SUCCESS
    /\ res.state = TRUE

Sign(x) == IF x < 0 THEN -1 ELSE IF x > 0 THEN 1 ELSE 0

(* The sign of the byte-wise lexicographic comparison of two names: that    *)
(* of the first position at which they differ, the end of a name coming     *)
(* before every byte.                                                       *)
LexSign(a, b) ==
    IF a = b THEN 0
    ELSE LET k == CHOOSE k \in 1 .. Len(a) + 1 :
                    /\ At(a, k) # At(b, k)
                    /\ \A i \in 1 .. k - 1 : At(a, i) = At(b, i)
         IN IF Ord(At(a, k)) < Ord(At(b, k)) THEN -1 ELSE 1

Compared == res.op \in { "flag_compare", "state_compare" }

(* C20: the flag comparison agrees in sign with the byte-wise               *)
(* lexicographic comparison of the flags, and is zero exactly when they     *)
(* are equal; the state comparison puts a true tuple before a false one     *)
(* and, between equal states, agrees in sign with the flag comparison;      *)
(* both are antisymmetric and transitive.                                   *)
C20_ComparisonsAreTotalOrders ==
    Compared
    => \A i, j \in DOMAIN res.tuples :
         /\ res.op = "flag_compare"
            => /\ Sign(res.order[i][j])
                    = LexSign(res.tuples[i].m_flag, res.tuples[j].m_flag)
               /\ res.order[i][j] = 0
                    <=> res.tuples[i].m_flag = res.tuples[j].m_flag
         /\ res.op = "state_compare"
            => /\ (res.tuples[i].m_state /\ ~res.tuples[j].m_state)
                    => res.order[i][j] < 0
               /\ res.tuples[i].m_state = res.tuples[j].m_state
                    => Sign(res.order[i][j])
                         = LexSign(res.tuples[i].m_flag, res.tuples[j].m_flag)
         /\ Sign(res.order[i][j]) = - Sign(res.order[j][i])
         /\ \A k \in DOMAIN res.tuples :
              (res.order[i][j] <= 0 /\ res.order[j][k] <= 0)
                => res.order[i][k] <= 0

(* Three tuples were compared by state: a true one named "b", a false one   *)
(* named "a" and a true one named "a".                                      *)
C20_Witness ==
    /\ res.op = "state_compare"
    /\ res.tuples = << Tuple(<<"b">>, TRUE, CHKCONFIG_ORIGIN_STATE),
                       Tuple(<<"a">>, FALSE, CHKCONFIG_ORIGIN_STATE),
                       Tuple(<<"a">>, TRUE, CHKCONFIG_ORIGIN_STATE) >>
    /\ res.order[1][2] < 0
    /\ res.order[3][1] < 0
    /\ res.order[3][2] < 0

GetMultipleReturned == res.op = "get_multiple" /\ ~res.null

(* What get_state_with_origin returns for the flag of the i-th tuple        *)
(* passed, over caller's storage that holds state0.                         *)
LookupOf(i, state0) ==
    chkconfigStateGet(CallOptions, res.given[i].m_flag, state0,
                      CHKCONFIG_ORIGIN_UNKNOWN)

(* The index of the first tuple passed whose lookup fails; one past the     *)
(* array when none does.                                                    *)
FirstFailing ==
    LET failing == { i \in DOMAIN res.given : Failed(LookupOf(i, FALSE).status) }
    IN IF failing = {} THEN Len(res.given) + 1
       ELSE CHOOSE i \in failing : \A j \in failing : i <= j

(* C21: get_state_multiple fills the tuples in array order with the state   *)
(* and origin get_state_with_origin returns for the flag of each and        *)
(* leaves the flags as they were; when the lookup of a tuple fails, its     *)
(* error is returned, the tuples before it are filled and those after it    *)
(* are as they were passed.                                                 *)
C21_GetMultipleIsGetInOrder ==
    GetMultipleReturned
    => /\ Len(res.tuples) = Len(res.given)
       /\ \A i \in DOMAIN res.given :
            /\ res.tuples[i].m_flag = res.given[i].m_flag
            /\ i < FirstFailing
               => /\ res.tuples[i].m_state = LookupOf(i, FALSE).state
                  /\ res.tuples[i].m_state = LookupOf(i, TRUE).state
                  /\ res.tuples[i].m_origin = LookupOf(i, FALSE).origin
            /\ i > FirstFailing => res.tuples[i] = res.given[i]
       /\ res.status = IF FirstFailing \in DOMAIN res.given
                       THEN LookupOf(FirstFailing, FALSE).status
                       ELSE CHKCONFIG_STATUS_SUCCESS

(* get_state_multiple of three tuples has failed on the second, an empty    *)
(* flag, after the first was found on in the state directory; the third     *)
(* was passed with state true and names a flag that is off.                 *)
C21_Witness ==
    /\ GetMultipleReturned
    /\ Len(res.given) = 3
    /\ FirstFailing = 2
    /\ res.status = -EINVAL
    /\ res.tuples[1] = Tuple(<<"a">>, TRUE, CHKCONFIG_ORIGIN_STATE)
    /\ res.given[1].m_state = FALSE
    /\ res.given[3] = Tuple(<<"a", "b">>, TRUE, CHKCONFIG_ORIGIN_UNKNOWN)
    /\ StateFile(<<"a", "b">>) = RegFile(OffFile)
    /\ res.tuples[3] = res.given[3]

(* C22: chkconfig_flag_state_tuples_destroy of a non-null array with a      *)
(* count of zero returns -EINVAL and releases nothing, the array staying    *)
(* the caller's; chkconfig_flag_state_tuples_init with a count of zero      *)
(* returns -EINVAL and allocates nothing.                                   *)
C22_ZeroCountIsInvalid ==
    [][ /\ (res'.op = "tuples_destroy" /\ res'.count = 0 /\ ~res.null)
           => /\ res'.status = -EINVAL
              /\ res'.heap = res.heap
              /\ res'.tuples = res.tuples
              /\ ~res'.null
        /\ (res'.op = "tuples_init" /\ res'.count = 0)
           => /\ res'.status = -EINVAL
              /\ res'.heap = res.heap
              /\ res'.null
      ]_vars

----------------------------------------------------------------------------
(* Properties of the chkconfig command.  In a state where a check has       *)
(* exited, res holds its command line and exit status and fs is the         *)
(* filesystem it read.                                                      *)

CheckExited == res.op = "check"

CliFallback == kChkconfigOptFlagUseDefaultDirectory \in res.optflags

CliFile(dir) == Lookup([ dir |-> dir, name |-> res.flag ])

(* The flag of the check resolves to on: its state file is well formed and  *)
(* on, or fallback is asked for, the first attempt fails or finds nothing,  *)
(* and its default file is well formed and on.                              *)
CliResolvesOn ==
    /\ res.flag \in FlagNames
    /\ ~res.null
    /\ \/ /\ WellFormed(CliFile(CHKCONFIG_STATEDIR_DEFAULT))
          /\ ValueOf(CliFile(CHKCONFIG_STATEDIR_DEFAULT))
       \/ /\ CliFallback
          /\ ~WellFormed(CliFile(CHKCONFIG_STATEDIR_DEFAULT))
          /\ WellFormed(CliFile(CHKCONFIG_DEFAULTDIR_DEFAULT))
          /\ ValueOf(CliFile(CHKCONFIG_DEFAULTDIR_DEFAULT))

C24_CountIsPopulatedUnderRace ==
    (CopyReturned /\ Succeeded)
    => /\ res.count
            = Cardinality({ i \in DOMAIN res.tuples :
                              res.tuples[i].m_flag # NullFlag })
       /\ \A i \in DOMAIN res.tuples :
            /\ res.tuples[i].m_flag # NullFlag
            /\ res.tuples[i].m_origin # CHKCONFIG_ORIGIN_UNKNOWN
       /\ Len(res.tuples) = res.count

(* What get_state_with_origin yields now for a flag under the options of    *)
(* the call, with outState set to state0 beforehand.                        *)
GetNow(flag, state0) ==
    chkconfigStateGet(CallOptions, flag, state0, CHKCONFIG_ORIGIN_UNKNOWN)

(* C25: enumeration and single lookup agree on the filesystem copy_all      *)
(* read: get_state_with_origin of the flag of every tuple of a successful   *)
(* copy_all succeeds with the state and origin of the tuple, and every      *)
(* flag whose lookup reports origin State or Default is among the tuples.   *)
C25_EnumerationAgreesWithLookup ==
    (CopyReturned /\ Succeeded)
    => /\ \A i \in DOMAIN res.tuples : \A state0 \in BOOLEAN :
            /\ GetNow(res.tuples[i].m_flag, state0).status
                 = CHKCONFIG_STATUS_SUCCESS
            /\ GetNow(res.tuples[i].m_flag, state0).state
                 = res.tuples[i].m_state
            /\ GetNow(res.tuples[i].m_flag, state0).origin
                 = res.tuples[i].m_origin
       /\ \A flag \in FlagNames :
            GetNow(flag, FALSE).origin
                \in { CHKCONFIG_ORIGIN_STATE, CHKCONFIG_ORIGIN_DEFAULT }
            => \E i \in DOMAIN res.tuples : res.tuples[i].m_flag = flag

----------------------------------------------------------------------------
(* Properties of what set_state leaves behind: in a state where set_state   *)
(* has returned, fs is the filesystem it wrote, and it stays so until the   *)
(* next set_state.                                                          *)

SetReturned == res.op = "set_state"

(* get_state_with_origin of the flag set yields the state set, from the     *)
(* state directory.                                                         *)
SetIsRead ==
    \A state0 \in BOOLEAN :
      /\ GetNow(res.flag, state0).status = CHKCONFIG_STATUS_SUCCESS
      /\ GetNow(res.flag, state0).state  = res.state
      /\ GetNow(res.flag, state0).origin = CHKCONFIG_ORIGIN_STATE

(* C26 as claimed: after a successful set_state(f, s),                      *)
(* get_state_with_origin(f) returns (s, State), with fallback enabled or    *)
(* not and whatever the default directory holds.                            *)
C26_SetThenGet == (SetReturned /\ Succeeded) => SetIsRead

(* C26 as amended: after a successful set_state(f, s) on a state file the   *)
(* caller may read, get_state_with_origin(f) returns (s, State), with       *)
(* fallback enabled or not and whatever the default directory holds.        *)
C26_SetThenGetWhenReadable ==
    (SetReturned /\ Succeeded /\ StateFile(res.flag).readable) => SetIsRead

C26_Witness ==
    /\ SetReturned
    /\ Succeeded
    /\ FallbackEnabled
    /\ res.state = FALSE
    /\ StateFile(res.flag) = RegFile(OffFile)
    /\ DefaultFile(res.flag) = RegFile(OnFile)

----------------------------------------------------------------------------
(* Properties of what set_state and set_state_multiple write (SpecMultiple): *)
(* of the step from the state the call is made in to the state it returns   *)
(* in.                                                                      *)

(* The flag has a file in the default directory and none in the state       *)
(* directory, before the step.                                              *)
DefaultOnly(options, flag) ==
    /\ fs[options.m_state_dir][flag].type = "none"
    /\ fs[options.m_default_dir][flag].type # "none"

(* C27: set_state and set_state_multiple leave every file of the default    *)
(* directory as it was, and set_state leaves every file of the state        *)
(* directory other than that of its flag as it was; set_state of a flag     *)
(* that has a file in the default directory only fails when force-state is  *)
(* off, fallback enabled or not, and leaves both directories as they were.  *)
C27_SetWritesOnlyItsStateFile ==
    [][ LET options == ContextOptions(res'.ctx) IN
        /\ res'.op \in { "set_state", "set_multiple" }
           => fs'[options.m_default_dir] = fs[options.m_default_dir]
        /\ res'.op = "set_state"
           => \A n \in FlagNames \ { res'.flag } :
                fs'[options.m_state_dir][n] = fs[options.m_state_dir][n]
        /\ (res'.op = "set_state" /\ res'.flag \in FlagNames
              /\ DefaultOnly(options, res'.flag) /\ ~options.m_force_state)
           => /\ Failed(res'.status)
              /\ fs' = fs
      ]_vars

C27_Witness ==
    /\ SetReturned
    /\ res.flag \in FlagNames
    /\ FallbackEnabled
    /\ ~CallOptions.m_force_state
    /\ Missing(StateFile(res.flag))
    /\ DefaultFile(res.flag) = RegFile(OnFile)
    /\ res.status = -ENOENT

(* set_state of the i-th tuple passed fails: its flag is empty, or it has   *)
(* no state file before the step and force-state is off (no earlier tuple   *)
(* creates one then).                                                       *)
SetFails(options, given, i) ==
    \/ given[i].m_flag = <<>>
    \/ /\ ~options.m_force_state
       /\ fs[options.m_state_dir][given[i].m_flag].type = "none"

SetError(given, i) == IF given[i].m_flag = <<>> THEN -EINVAL ELSE -ENOENT

(* The index of the first tuple passed whose set_state fails; one past the  *)
(* array when none does.                                                    *)
FirstFailingSet(options, given) ==
    LET failing == { i \in DOMAIN given : SetFails(options, given, i) }
    IN IF failing = {} THEN Len(given) + 1
       ELSE CHOOSE i \in failing : \A j \in failing : i <= j

(* The tuples before index k that set the flag n. *)
SettersBefore(given, k, n) ==
    { i \in DOMAIN given : i < k /\ given[i].m_flag = n }

Last(S) == CHOOSE i \in S : \A j \in S : j <= i

(* C28: set_state_multiple applies its tuples in array order and stops at   *)
(* the first whose set_state fails, returning its error: the state file of  *)
(* a flag set before the failing index holds what the last such tuple       *)
(* wrote, every other state file is as it was; when none fails every tuple  *)
(* is applied and the call succeeds, as set_state on each in order does.    *)
C28_SetMultipleStopsAtFirstFailure ==
    [][ (res'.op = "set_multiple" /\ ~res'.null)
        => LET options == ContextOptions(res'.ctx)
               given   == res'.given
               k       == FirstFailingSet(options, given)
           IN
           /\ res'.status = IF k \in DOMAIN given THEN SetError(given, k)
                            ELSE CHKCONFIG_STATUS_SUCCESS
           /\ \A n \in FlagNames :
                IF SettersBefore(given, k, n) = {}
                THEN fs'[options.m_state_dir][n] = fs[options.m_state_dir][n]
                ELSE /\ fs'[options.m_state_dir][n].type = "reg"
                     /\ fs'[options.m_state_dir][n].data
                          = StateFileContent(
                                given[Last(SettersBefore(given, k, n))].m_state)
      ]_vars

C28_Witness ==
    /\ res.op = "set_multiple"
    /\ Len(res.given) = 3
    /\ res.given[1] = Tuple(<<"a">>, TRUE, CHKCONFIG_ORIGIN_UNKNOWN)
    /\ res.given[2].m_flag = <<>>
    /\ res.given[3] = Tuple(<<"a", "b">>, TRUE, CHKCONFIG_ORIGIN_UNKNOWN)
    /\ res.status = -EINVAL
    /\ StateFile(<<"a">>) = RegFile(OnFile)
    /\ StateFile(<<"a", "b">>) = RegFile(OffFile)

----------------------------------------------------------------------------
(* Properties of failing option calls (SpecLife).                           *)

(* C29: a set-option call that fails, for a key that is not recognized or   *)
(* for an allocation failure while duplicating a directory path, leaves     *)
(* the options as they were before the call.                                *)
C29_FailedSetLeavesOptions ==
    [][ (res'.op = "options_set" /\ Failed(res'.status))
        => opts'[res'.opt] = opts[res'.opt] ]_vars

(* C30: when create-options fails because a directory path cannot be        *)
(* duplicated, no object and no string it allocated remains allocated, the  *)
(* caller's options pointer is not set, and the context is bound to the     *)
(* options it was bound to.                                                 *)
C30_FailedCreateReleasesAndLeaves ==
    [][ (res'.op = "options_init" /\ res'.status = -ENOMEM)
        => /\ \A o \in OptIds : opts'[o].live = opts[o].live
           /\ held' = held
           /\ ctxs' = ctxs ]_vars

====
